---- MODULE Spec2Model ----
(***************************************************************************)
(* A model of real-cancellable-promise: CancellablePromise and its        *)
(* combinators running on the host's promise machinery (a heap of native  *)
(* promises, a FIFO microtask queue, timers).                             *)
(*                                                                         *)
(* Every operation of the library is a function from heap to heap; an     *)
(* action runs one whole macrotask or microtask: a timer callback, one    *)
(* promise job, or one synchronous call of cancel() by the application.   *)
(***************************************************************************)
EXTENDS Integers, Sequences, FiniteSets, TLC

VARIABLES promises, cps, links, cells, timers, aggs, procs, captured, jobs, threw,
          prog, cancelLog, atCancel, unhandled

vars == <<promises, cps, links, cells, timers, aggs, procs, captured, jobs, threw,
          prog, cancelLog, atCancel, unhandled>>

(***************************************************************************)
(* Bounds                                                                  *)
(***************************************************************************)
\* how many times the application calls cancel() in one run; on a chain,
\* with its three futures to choose from, once less
MaxCancels == 2

(***************************************************************************)
(* JavaScript values.  Every value has the same three fields so that any   *)
(* two values can be compared.                                             *)
(***************************************************************************)
Mk(t, v, a) == [t |-> t, v |-> v, a |-> a]

V(n) == Mk("number", n, <<>>)

Undef == Mk("undefined", 0, <<>>)

Null == Mk("null", 0, <<>>)

Bool(b) == Mk("boolean", IF b THEN 1 ELSE 0, <<>>)

\* new Error('myError') and friends: v tells the errors apart
Err(n) == Mk("Error", n, <<>>)

\* new Cancellation(message): v = 0 is the default message 'Promise canceled.'
Cancellation(m) == Mk("Cancellation", m, <<>>)

\* a reference to the CancellablePromise cps[id]
CPv(id) == Mk("CancellablePromise", id, <<>>)

\* a reference to the native promise promises[id]
NPv(id) == Mk("Promise", id, <<>>)

Arr(s) == Mk("Array", 0, s)

\* the records Promise.allSettled produces
SettledRec(status, val) == Mk(status, 0, <<val>>)

\* typeof value
TypeOf(val) ==
  CASE val.t = "number" -> "number"
    [] val.t = "boolean" -> "boolean"
    [] val.t = "undefined" -> "undefined"
    [] OTHER -> "object"

HasThen(val) == val.t \in {"CancellablePromise", "Promise"}

HasCancel(val) == val.t = "CancellablePromise"

\* the test without its last conjunct: anything with a then passes
isPromiseWithCancel_thenOnly(val) ==
  /\ val.t \notin {"null", "undefined"}
  /\ TypeOf(val) = "object"
  /\ HasThen(val)

isPromiseWithCancel(val) ==
  /\ val.t \notin {"null", "undefined"}
  /\ TypeOf(val) = "object"
  /\ HasThen(val)
  /\ HasCancel(val)

(***************************************************************************)
(* The heap                                                                *)
(***************************************************************************)
EmptyHeap ==
  [promises |-> <<>>, cps |-> <<>>, links |-> <<>>, cells |-> <<>>,
   timers |-> <<>>, aggs |-> <<>>, procs |-> <<>>, captured |-> <<>>,
   jobs |-> <<>>, threw |-> FALSE]

Heap ==
  [promises |-> promises, cps |-> cps, links |-> links, cells |-> cells,
   timers |-> timers, aggs |-> aggs, procs |-> procs, captured |-> captured,
   jobs |-> jobs, threw |-> threw]

\* a reaction registered on a native promise by then():
\*   k       which handler pair it is
\*   a, b    its arguments
\*   derived the promise then() returned (0: nobody can reach it)
ReactionV(k, a, b, derived, val) ==
  [k |-> k, a |-> a, b |-> b, derived |-> derived, val |-> val]

Reaction(k, a, b, derived) == ReactionV(k, a, b, derived, Undef)

NoReaction == Reaction("none", 0, 0, 0)

ReactionJob(r, st, val) == [k |-> "reaction", r |-> r, st |-> st, val |-> val, p |-> 0]

ThenableJob(p, val) == [k |-> "thenable", r |-> NoReaction, st |-> "", val |-> val, p |-> p]

\* application callbacks handed to then/catch: what the callback does
CallbackW(k, v, ok, w) == [k |-> k, v |-> v, ok |-> ok, w |-> w]

Callback(k, v, ok) == CallbackW(k, v, ok, 0)

NoCb == Callback("none", 0, TRUE)

(***************************************************************************)
(* Native promises                                                         *)
(***************************************************************************)
NewPromise(h) ==
  [h |-> [h EXCEPT !.promises = Append(@,
            [state |-> "pending", value |-> Undef, reactions |-> <<>>,
             handled |-> FALSE, locked |-> FALSE])],
   id |-> Len(h.promises) + 1]

Settled(h, p) == h.promises[p].state # "pending"

\* FulfillPromise / RejectPromise: settle and queue one job per reaction
SettlePromise(h, p, st, val) ==
  LET rs == h.promises[p].reactions IN
  [h EXCEPT !.promises[p].state = st,
            !.promises[p].value = val,
            !.promises[p].reactions = <<>>,
            !.jobs = @ \o [i \in 1..Len(rs) |-> ReactionJob(rs[i], st, val)]]

\* the resolve function of a promise whose resolution is not yet decided
ResolveWith(h, p, val) ==
  IF HasThen(val)
  THEN [h EXCEPT !.promises[p].locked = TRUE,
                 !.jobs = Append(@, ThenableJob(p, val))]
  ELSE SettlePromise(h, p, "fulfilled", val)

\* resolve / reject as handed to a `new Promise` executor: no-ops once the
\* promise is settled or locked in to another promise
ResolveFn(h, p, val) ==
  IF h.promises[p].state # "pending" \/ h.promises[p].locked THEN h
  ELSE ResolveWith(h, p, val)

\* a reject function without the host's settled-once guard
RejectFn_unguarded(h, p, val) ==
  IF h.promises[p].locked THEN h
  ELSE SettlePromise(h, p, "rejected", val)

RejectFn(h, p, val) ==
  IF h.promises[p].state # "pending" \/ h.promises[p].locked THEN h
  ELSE SettlePromise(h, p, "rejected", val)

\* the fresh resolve / reject pair a thenable job (or a reaction job) holds
\* for the promise it is about to settle
ResolveAdopt(h, p, val) ==
  IF h.promises[p].state # "pending" THEN h
  ELSE ResolveWith([h EXCEPT !.promises[p].locked = FALSE], p, val)

RejectAdopt(h, p, val) ==
  IF h.promises[p].state # "pending" THEN h
  ELSE SettlePromise(h, p, "rejected", val)

\* promise.then(...): register the reaction, or queue its job at once
PerformThen(h, p, r) ==
  LET h1 == [h EXCEPT !.promises[p].handled = TRUE] IN
  IF h.promises[p].state = "pending"
  THEN [h1 EXCEPT !.promises[p].reactions = Append(@, r)]
  ELSE [h1 EXCEPT !.jobs = Append(@,
          ReactionJob(r, h.promises[p].state, h.promises[p].value))]

\* Promise.resolve(value): a native promise is returned as it is, anything
\* else gets a new promise resolved with it
PromiseResolve(h, val) ==
  IF val.t = "Promise" THEN [h |-> h, id |-> val.v]
  ELSE LET a == NewPromise(h)
       IN [h |-> ResolveWith(a.h, a.id, val), id |-> a.id]

(***************************************************************************)
(* new CancellablePromise(promise, cancel)                                 *)
(***************************************************************************)
\* a cancel function: k names the closure, ref / refs are what it captured
CancelFn(k, ref, refs) == [k |-> k, ref |-> ref, refs |-> refs]

NewCancellablePromise(h, p, cancel) ==
  [h |-> [h EXCEPT !.cps = Append(@, [promise |-> p, cancel |-> cancel, calls |-> 0, args |-> <<>>])],
   id |-> Len(h.cps) + 1]

(***************************************************************************)
(* Timers and leaf futures                                                 *)
(***************************************************************************)
\* setTimeout(callback): the timer is armed until it fires or is cleared
SetTimeout(h, k, cell, val, ok) ==
  [h EXCEPT !.timers = Append(@,
     [state |-> "armed", k |-> k, cell |-> cell, val |-> val, ok |-> ok])]

clearTimeout(h, t) ==
  IF t # 0 /\ h.timers[t].state = "armed"
  THEN [h EXCEPT !.timers[t].state = "cleared"]
  ELSE h

\* the closure variables of a leaf: the promise it settles, `canceled`,
\* `rejectFn` ("reject", or "noop" once replaced by noop) and `timer`
NewCell(h, p, timer) ==
  [h EXCEPT !.cells = Append(@,
     [promise |-> p, canceled |-> FALSE, rejectFn |-> "reject", timer |-> timer,
      reason |-> 0])]

\* rejectFn(reason) through the closure variable
CallRejectFn(h, c, val) ==
  IF h.cells[c].rejectFn = "noop" THEN h
  ELSE RejectFn(h, h.cells[c].promise, val)

\* the tests' getPromise(returnValue, {shouldResolve}): a future that a timer
\* fulfils with returnValue or rejects with Error('myError')
getPromise(h, returnValue, shouldResolve) ==
  LET a == NewPromise(h)
      c == Len(h.cells) + 1
      t == Len(h.timers) + 1
      h1 == NewCell(a.h, a.id, t)
      h2 == SetTimeout(h1, "getPromise", c, returnValue, shouldResolve)
  IN NewCancellablePromise(h2, a.id, CancelFn("getPromise", c, <<>>))

getPromiseTimer(h, t) ==
  LET tm == h.timers[t]
      p == h.cells[tm.cell].promise
  IN IF tm.ok THEN ResolveFn(h, p, tm.val) ELSE RejectFn(h, p, Err(1))

\* getPromise(returnValue, {cancellationReason}): the cancel function rejects
\* with new Cancellation(cancellationReason)
getPromiseWithReason(h, returnValue, cancellationReason) ==
  LET g == getPromise(h, returnValue, TRUE)
  IN [g EXCEPT !.h.cells[Len(g.h.cells)].reason = cancellationReason]

getPromiseCancel(h, c) ==
  LET h1 == IF h.cells[c].timer # 0 THEN clearTimeout(h, h.cells[c].timer) ELSE h
  IN RejectFn(h1, h1.cells[c].promise, Cancellation(h1.cells[c].reason))

\* CancellablePromise.delay(ms)
delay(h) ==
  LET a == NewPromise(h)
      c == Len(h.cells) + 1
      t == Len(h.timers) + 1
      h1 == NewCell(a.h, a.id, t)
      h2 == SetTimeout(h1, "delay", c, Undef, TRUE)
  IN NewCancellablePromise(h2, a.id, CancelFn("delay", c, <<>>))

delayTimer(h, t) ==
  LET c == h.timers[t].cell
      h1 == ResolveFn(h, h.cells[c].promise, Undef)
  IN [h1 EXCEPT !.cells[c].rejectFn = "noop"]

\* a cancel that clears the timer but does not reject
delayCancel_noReject(h, c) ==
  IF h.cells[c].timer # 0 THEN clearTimeout(h, h.cells[c].timer) ELSE h

\* a cancel that rejects but leaves the timer armed
delayCancel_noClear(h, c) == CallRejectFn(h, c, Cancellation(0))

\* a cancel that throws once the timer is no longer armed
delayCancel_throwsOnceFired(h, c) ==
  IF h.cells[c].timer # 0 /\ h.timers[h.cells[c].timer].state # "armed"
  THEN [h EXCEPT !.threw = TRUE]
  ELSE CallRejectFn(clearTimeout(h, h.cells[c].timer), c, Cancellation(0))

delayCancel(h, c) ==
  LET h1 == IF h.cells[c].timer # 0 THEN clearTimeout(h, h.cells[c].timer) ELSE h
  IN CallRejectFn(h1, c, Cancellation(0))

\* the tests' delay(duration): an ordinary promise a timer fulfils; the
\* timer remembers the promise itself
helperDelay(h) ==
  LET a == NewPromise(h)
  IN [h |-> SetTimeout(a.h, "helperDelay", a.id, Undef, TRUE), id |-> a.id]

helperDelayTimer(h, t) ==
  IF h.timers[t].ok THEN ResolveFn(h, h.timers[t].cell, h.timers[t].val)
  ELSE RejectFn(h, h.timers[t].cell, h.timers[t].val)

\* an ordinary promise that a timer fulfils with val
helperResolves(h, val) ==
  LET a == NewPromise(h)
  IN [h |-> SetTimeout(a.h, "helperDelay", a.id, val, TRUE), id |-> a.id]

\* an ordinary promise that a timer rejects
helperFails(h) ==
  LET a == NewPromise(h)
  IN [h |-> SetTimeout(a.h, "helperDelay", a.id, Err(4), FALSE), id |-> a.id]

\* Promise.resolve(value) for a plain value
PromiseResolved(h, val) ==
  LET a == NewPromise(h)
  IN [h |-> SettlePromise(a.h, a.id, "fulfilled", val), id |-> a.id]

\* pseudoCancellable(promise)
pseudoCancellable(h, promise) ==
  LET a == NewPromise(h)
      c == Len(h.cells) + 1
      h1 == NewCell(a.h, a.id, 0)
      h2 == PerformThen(h1, promise, Reaction("pseudo", c, 0, 0))
  IN NewCancellablePromise(h2, a.id, CancelFn("pseudo", c, <<>>))

\* handlers that forward a fulfilment only
pseudoReaction_dropsRejection(h, c, st, val) ==
  IF h.cells[c].canceled \/ st # "fulfilled" THEN h
  ELSE [ResolveFn(h, h.cells[c].promise, val) EXCEPT !.cells[c].rejectFn = "noop"]

\* the two handlers pseudoCancellable attaches to the wrapped promise
pseudoReaction(h, c, st, val) ==
  IF h.cells[c].canceled THEN h
  ELSE IF st = "fulfilled"
       THEN [ResolveFn(h, h.cells[c].promise, val) EXCEPT !.cells[c].rejectFn = "noop"]
       ELSE RejectFn(h, h.cells[c].promise, val)

\* a cancel that also stops the timer behind the wrapped promise
pseudoCancel_abortsInner(h, c) ==
  LET h1 == [h EXCEPT !.timers = [t \in DOMAIN @ |->
               IF @[t].k = "helperDelay" /\ @[t].state = "armed"
               THEN [@[t] EXCEPT !.state = "cleared"] ELSE @[t]]]
  IN CallRejectFn([h1 EXCEPT !.cells[c].canceled = TRUE], c, Cancellation(0))

\* a cancel that sets the flag but does not reject
pseudoCancel_flagOnly(h, c) == [h EXCEPT !.cells[c].canceled = TRUE]

pseudoCancel(h, c) ==
  CallRejectFn([h EXCEPT !.cells[c].canceled = TRUE], c, Cancellation(0))

\* a resolve(value) that settles later, through a timer its cancel clears
resolve_viaTimer(h, val) == getPromise(h, val, TRUE)

\* CancellablePromise.resolve(value) / CancellablePromise.reject(reason)
resolve(h, val) ==
  LET a == NewPromise(h)
  IN NewCancellablePromise(ResolveWith(a.h, a.id, val), a.id, CancelFn("noop", 0, <<>>))

reject(h, val) ==
  LET a == NewPromise(h)
  IN NewCancellablePromise(SettlePromise(a.h, a.id, "rejected", val), a.id,
                           CancelFn("noop", 0, <<>>))

(***************************************************************************)
(* CancellablePromise.then / catch                                         *)
(***************************************************************************)
then(h, this, onFulfilled, onRejected) ==
  LET l == Len(h.links) + 1
      a == NewPromise(h)
      h1 == [a.h EXCEPT !.links = Append(@,
               [this |-> this, canceled |-> FALSE, callbackPromiseWithCancel |-> 0,
                invoked |-> <<>>,
                onFulfilled |-> onFulfilled, onRejected |-> onRejected,
                newPromise |-> a.id])]
      h2 == PerformThen(h1, h1.cps[this].promise, Reaction("then", l, 0, a.id))
  IN NewCancellablePromise(h2, a.id, CancelFn("then", l, <<>>))

catch(h, this, onRejected) == then(h, this, NoCb, onRejected)

\* CancellablePromise.finally: the same cancel function, on
\* this.promise.finally(onFinally)
finally(h, this, onFinally) ==
  LET l == Len(h.links) + 1
      a == NewPromise(h)
      h1 == [a.h EXCEPT !.links = Append(@,
               [this |-> this, canceled |-> FALSE, callbackPromiseWithCancel |-> 0,
                invoked |-> <<>>,
                onFulfilled |-> onFinally, onRejected |-> NoCb,
                newPromise |-> a.id])]
      h2 == PerformThen(h1, h1.cps[this].promise, Reaction("finally", l, 0, a.id))
  IN NewCancellablePromise(h2, a.id, h2.cps[this].cancel)

RECURSIVE Cancel(_, _)
RECURSIVE CancelWith(_, _, _)
RECURSIVE CancelValues(_, _, _)
RECURSIVE CancelCaptured(_, _, _)
RECURSIVE RunProc(_, _)
RECURSIVE MakeInputs(_, _, _, _)

\* newCancel as it was before the flag: nothing is remembered for a
\* callback that has not run yet
newCancel_noFlag(h, l) ==
  LET h1 == Cancel(h, h.links[l].this)
      n == h1.links[l].callbackPromiseWithCancel
  IN IF n # 0 THEN Cancel(h1, n) ELSE h1

\* newCancel that cancels the callback's future instead of the receiver
\* when there is one
newCancel_nestedInstead(h, l) ==
  LET n == h.links[l].callbackPromiseWithCancel
  IN IF n # 0 THEN Cancel([h EXCEPT !.links[l].canceled = TRUE], n)
     ELSE [Cancel(h, h.links[l].this) EXCEPT !.links[l].canceled = TRUE]

\* newCancel that reaches the callback's future on a repeated call only
newCancel_nestedOnRepeat(h, l) ==
  LET h1 == [h EXCEPT !.links[l].canceled = TRUE]
      h2 == Cancel(h1, h1.links[l].this)
      n == h2.links[l].callbackPromiseWithCancel
  IN IF n # 0 /\ h.links[l].canceled THEN Cancel(h2, n) ELSE h2

\* newCancel that hands the argument it was called with on
newCancel_passesReason(h, l) ==
  LET c == CHOOSE c \in 1..Len(h.cps) :
             /\ h.cps[c].cancel.k = "then" /\ h.cps[c].cancel.ref = l
             /\ h.cps[c].args # <<>>
      reason == h.cps[c].args[Len(h.cps[c].args)]
      h1 == CancelWith(h, h.links[l].this, reason)
      h2 == [h1 EXCEPT !.links[l].canceled = TRUE]
      n == h2.links[l].callbackPromiseWithCancel
  IN IF n # 0 THEN CancelWith(h2, n, reason) ELSE h2

\* newCancel without its first line: the receiver is left alone
newCancel_skipsReceiver(h, l) ==
  LET h2 == [h EXCEPT !.links[l].canceled = TRUE]
      n == h2.links[l].callbackPromiseWithCancel
  IN IF n # 0 THEN Cancel(h2, n) ELSE h2

\* newCancel without its last line: the callback's future is left alone
newCancel_forgetsNested(h, l) ==
  LET h1 == Cancel(h, h.links[l].this)
  IN [h1 EXCEPT !.links[l].canceled = TRUE]

\* newCancel of then(): cancel the receiver, raise the flag, cancel what the
\* callback returned
newCancel(h, l) ==
  LET h1 == Cancel(h, h.links[l].this)
      h2 == [h1 EXCEPT !.links[l].canceled = TRUE]
      n == h2.links[l].callbackPromiseWithCancel
  IN IF n # 0 THEN Cancel(h2, n) ELSE h2

\* value.cancel(): a TypeError unless value has a cancel method
InvokeCancel(h, val) ==
  IF val.t = "CancellablePromise" THEN Cancel(h, val.v)
  ELSE [h EXCEPT !.threw = TRUE]

\* for (const value of values) if (isPromiseWithCancel(value)) value.cancel()
CancelValues(h, values, i) ==
  IF i > Len(values) THEN h
  ELSE CancelValues(
         IF isPromiseWithCancel(values[i]) THEN InvokeCancel(h, values[i]) ELSE h,
         values, i + 1)

\* a cancel closure that stops after the first input
allCancel_firstOnly(h, values) ==
  IF Len(values) = 0 THEN h ELSE CancelValues(h, <<values[1]>>, 1)

\* a cancel closure that does nothing, like the one of resolve()
allCancel_noop(h, values) == h

\* the cancel closure of all
allCancel(h, values) == CancelValues(h, values, 1)

\* a cancel closure that does nothing
allSettledCancel_noop(h, values) == h

\* the cancel closure of allSettled
allSettledCancel(h, values) == CancelValues(h, values, 1)

\* a cancel closure that spares the inputs that have settled, and with them
\* nothing else
raceCancel_onlyWhilePending(h, values) ==
  IF \E i \in 1..Len(values) :
        values[i].t = "CancellablePromise" /\ Settled(h, h.cps[values[i].v].promise)
  THEN h
  ELSE CancelValues(h, values, 1)

\* the cancel closure of race
raceCancel(h, values) == CancelValues(h, values, 1)

\* capturedPromises.forEach((p) => p.cancel()) over the registry as it is
\* when cancel() is called
CancelCaptured(h, ps, i) ==
  IF i > Len(ps) THEN h ELSE CancelCaptured(Cancel(h, ps[i]), ps, i + 1)

\* a cancel that also ends the procedure's promise with a Cancellation
buildCancel_terminates(h, r) ==
  LET q == CHOOSE i \in 1..Len(h.procs) : h.procs[i].registry = r
      h1 == CancelCaptured(h, h.captured[r], 1)
  IN RejectFn(h1, h1.procs[q].promise, Cancellation(0))

\* a cancel that cancels nothing
buildCancel_noop(h, r) == h

\* a cancel that stops after the first captured future
buildCancel_firstOnly(h, r) ==
  IF h.captured[r] = <<>> THEN h ELSE Cancel(h, h.captured[r][1])

\* a cancel that cancels the latest captured future only
buildCancel_latestOnly(h, r) ==
  IF h.captured[r] = <<>> THEN h ELSE Cancel(h, h.captured[r][Len(h.captured[r])])

\* the cancel function of buildCancellablePromise
buildCancel(h, r) == CancelCaptured(h, h.captured[r], 1)

\* no argument: the message of a Cancellation made from it is the default
NoReason == 0

\* cp.cancel(reason): run the cancel function the CancellablePromise was
\* built with; none of the cancel functions below takes a parameter
CancelWith(h, cp, reason) ==
  LET h0 == [h EXCEPT !.cps[cp].calls = @ + 1, !.cps[cp].args = Append(@, reason)]
      fn == h0.cps[cp].cancel
  IN CASE fn.k = "noop" -> h0
       [] fn.k = "getPromise" -> getPromiseCancel(h0, fn.ref)
       [] fn.k = "delay" -> delayCancel(h0, fn.ref)
       [] fn.k = "pseudo" -> pseudoCancel(h0, fn.ref)
       [] fn.k = "build" -> buildCancel(h0, fn.ref)
       [] fn.k = "then" -> newCancel(h0, fn.ref)
       [] fn.k = "all" -> allCancel(h0, fn.refs)
       [] fn.k = "allSettled" -> allSettledCancel(h0, fn.refs)
       [] fn.k = "race" -> raceCancel(h0, fn.refs)

\* cp.cancel(): how the core invokes a cancel
Cancel(h, cp) == CancelWith(h, cp, NoReason)

\* cp.cancel(reason) called by the application; cancelLog records the call,
\* and args keeps the arguments of the invocations the core made
ApplicationCancel(h, cp, reason) ==
  LET h1 == CancelWith(h, cp, reason)
      k == Len(h.cps[cp].args) + 1
  IN [h1 EXCEPT !.cps[cp].args =
        SubSeq(@, 1, k - 1) \o SubSeq(@, k + 1, Len(@))]

\* what an application callback does when called with arg:
\* [h, thrown, val] is the heap after it ran and what it returned or threw
CallCallback(h, cb, arg) ==
  CASE cb.k = "value" -> [h |-> h, thrown |-> FALSE, val |-> V(cb.v)]
    [] cb.k = "noop" -> [h |-> h, thrown |-> FALSE, val |-> Undef]
    [] cb.k = "delete" ->
         [h |-> [h EXCEPT !.captured[cb.w] = SelectSeq(@, LAMBDA x : x # cb.v)],
          thrown |-> FALSE,
          val |-> Bool(\E i \in 1..Len(h.captured[cb.w]) : h.captured[cb.w][i] = cb.v)]
    [] cb.k = "null" -> [h |-> h, thrown |-> FALSE, val |-> Null]
    [] cb.k = "throw" -> [h |-> h, thrown |-> TRUE, val |-> Err(cb.v)]
    [] cb.k = "getPromise" ->
         LET g == getPromise(h, V(cb.v), cb.ok)
         IN [h |-> g.h, thrown |-> FALSE, val |-> CPv(g.id)]
    [] cb.k = "promise" ->
         LET g == IF cb.ok THEN helperDelay(h) ELSE helperFails(h)
         IN [h |-> g.h, thrown |-> FALSE, val |-> NPv(g.id)]
    [] cb.k = "resolveFn" ->
         [h |-> ResolveAdopt(h, cb.v, arg), thrown |-> FALSE, val |-> Undef]
    [] cb.k = "rejectFn" ->
         [h |-> RejectAdopt(h, cb.v, arg), thrown |-> FALSE, val |-> Undef]

\* the wrappers as they were before the canceled flag was consulted in them
wrapper_ignoresCanceled(h, l, cb, arg) ==
  LET r == CallCallback([h EXCEPT !.links[l].invoked = Append(@, arg)], cb, arg) IN
  IF ~r.thrown /\ isPromiseWithCancel(r.val)
  THEN [r EXCEPT !.h = [r.h EXCEPT !.links[l].callbackPromiseWithCancel = r.val.v]]
  ELSE r

\* wrappers that throw a Cancellation instead of returning a plain result
\* once cancel was requested
wrapper_discardsWhenCanceled(h, l, cb, arg) ==
  LET r == CallCallback([h EXCEPT !.links[l].invoked = Append(@, arg)], cb, arg) IN
  IF ~r.thrown /\ isPromiseWithCancel(r.val)
  THEN LET h1 == [r.h EXCEPT !.links[l].callbackPromiseWithCancel = r.val.v]
       IN [r EXCEPT !.h = IF h1.links[l].canceled THEN Cancel(h1, r.val.v) ELSE h1]
  ELSE IF ~r.thrown /\ r.h.links[l].canceled
       THEN [r EXCEPT !.thrown = TRUE, !.val = Cancellation(0)]
       ELSE r

\* wrappers that remember a cancellable result but do not return it
wrapper_returnsUndefined(h, l, cb, arg) ==
  LET r == CallCallback([h EXCEPT !.links[l].invoked = Append(@, arg)], cb, arg) IN
  IF ~r.thrown /\ isPromiseWithCancel(r.val)
  THEN LET h1 == [r.h EXCEPT !.links[l].callbackPromiseWithCancel = r.val.v]
       IN [r EXCEPT !.h = IF h1.links[l].canceled THEN Cancel(h1, r.val.v) ELSE h1,
                    !.val = Undef]
  ELSE r

\* the `fulfill` / `reject` wrappers of then(): call the callback (the link
\* keeps the arguments it was invoked with), remember a
\* cancellable result and cancel it at once if cancel was already requested
wrapper(h, l, cb, arg) ==
  LET r == CallCallback([h EXCEPT !.links[l].invoked = Append(@, arg)], cb, arg) IN
  IF ~r.thrown /\ isPromiseWithCancel(r.val)
  THEN LET h1 == [r.h EXCEPT !.links[l].callbackPromiseWithCancel = r.val.v]
       IN [r EXCEPT !.h = IF h1.links[l].canceled THEN Cancel(h1, r.val.v) ELSE h1]
  ELSE r

\* the job of this.promise.finally(onFinally): run onFinally, wait for what
\* it returned, then pass the settlement of this.promise on
finallyReaction(h, l, st, val) ==
  LET L == h.links[l]
      cb == L.onFulfilled
  IN IF cb.k = "none"
     THEN IF st = "fulfilled" THEN ResolveAdopt(h, L.newPromise, val)
          ELSE RejectAdopt(h, L.newPromise, val)
     ELSE LET r == CallCallback([h EXCEPT !.links[l].invoked = Append(@, Undef)], cb, Undef)
          IN IF r.thrown THEN RejectAdopt(r.h, L.newPromise, r.val)
             ELSE LET w == PromiseResolve(r.h, r.val)
                      a == NewPromise(w.h)
                      h1 == PerformThen(a.h, w.id,
                              ReactionV("thunk", IF st = "fulfilled" THEN 1 ELSE 0, 0,
                                        a.id, val))
                  IN ResolveAdopt(h1, L.newPromise, NPv(a.id))

\* thunks that pass on what onFinally returned
thunkReaction_returnsResult(h, r, st, val) ==
  IF st = "rejected" THEN RejectAdopt(h, r.derived, val)
  ELSE ResolveAdopt(h, r.derived, val)

\* the thunks of finally: () => value and () => { throw reason }
thunkReaction(h, r, st, val) ==
  IF st = "rejected" THEN RejectAdopt(h, r.derived, val)
  ELSE IF r.a = 1 THEN ResolveAdopt(h, r.derived, r.val)
       ELSE RejectAdopt(h, r.derived, r.val)

\* a job that hands a Cancellation on without calling onRejected
thenReaction_cancellationBypasses(h, l, st, val) ==
  LET L == h.links[l]
      cb == IF st = "fulfilled" THEN L.onFulfilled ELSE L.onRejected
  IN IF cb.k = "none" \/ (st = "rejected" /\ val.t = "Cancellation")
     THEN IF st = "fulfilled" THEN ResolveAdopt(h, L.newPromise, val)
          ELSE RejectAdopt(h, L.newPromise, val)
     ELSE LET r == wrapper(h, l, cb, val)
          IN IF r.thrown THEN RejectAdopt(r.h, L.newPromise, r.val)
             ELSE ResolveAdopt(r.h, L.newPromise, r.val)

\* a job that swallows what the callback throws
thenReaction_dropsThrown(h, l, st, val) ==
  LET L == h.links[l]
      cb == IF st = "fulfilled" THEN L.onFulfilled ELSE L.onRejected
  IN IF cb.k = "none"
     THEN IF st = "fulfilled" THEN ResolveAdopt(h, L.newPromise, val)
          ELSE RejectAdopt(h, L.newPromise, val)
     ELSE LET r == wrapper(h, l, cb, val)
          IN IF r.thrown THEN ResolveAdopt(r.h, L.newPromise, Undef)
             ELSE ResolveAdopt(r.h, L.newPromise, r.val)

\* the job of this.promise.then(fulfill, reject)
thenReaction(h, l, st, val) ==
  LET L == h.links[l]
      cb == IF st = "fulfilled" THEN L.onFulfilled ELSE L.onRejected
  IN IF cb.k = "none"
     THEN IF st = "fulfilled" THEN ResolveAdopt(h, L.newPromise, val)
          ELSE RejectAdopt(h, L.newPromise, val)
     ELSE LET r == wrapper(h, l, cb, val)
          IN IF r.thrown THEN RejectAdopt(r.h, L.newPromise, r.val)
             ELSE ResolveAdopt(r.h, L.newPromise, r.val)

(***************************************************************************)
(* Promise.all / Promise.race / Promise.allSettled and their wrappers      *)
(***************************************************************************)
RECURSIVE Subscribe(_, _, _, _, _)
\* for each input in order: Promise.resolve(input).then(handlers of k)
Subscribe(h, k, g, values, i) ==
  IF i > Len(values) THEN h
  ELSE LET r == PromiseResolve(h, values[i])
       IN Subscribe(PerformThen(r.h, r.id, Reaction(k, g, i, 0)), k, g, values, i + 1)

NewAggregate(h, k, values) ==
  LET a == NewPromise(h)
      g == Len(h.aggs) + 1
      n == Len(values)
      h1 == [a.h EXCEPT !.aggs = Append(@,
               [promise |-> a.id, remaining |-> n, results |-> [i \in 1..n |-> Undef]])]
  IN [h |-> Subscribe(h1, k, g, values, 1), id |-> a.id]

PromiseAll(h, values) ==
  LET r == NewAggregate(h, "all", values)
  IN IF Len(values) = 0 THEN [r EXCEPT !.h = ResolveAdopt(r.h, r.id, Arr(<<>>))] ELSE r

PromiseAllSettled(h, values) ==
  LET r == NewAggregate(h, "allSettled", values)
  IN IF Len(values) = 0 THEN [r EXCEPT !.h = ResolveAdopt(r.h, r.id, Arr(<<>>))] ELSE r

\* a race that rejects when it is given no input
PromiseRace_emptyRejects(h, values) ==
  LET r == NewAggregate(h, "race", values)
  IN IF Len(values) = 0 THEN [r EXCEPT !.h = RejectAdopt(r.h, r.id, Err(0))] ELSE r

PromiseRace(h, values) == NewAggregate(h, "race", values)

\* all as pseudoCancellable(Promise.all(values)): its cancel rejects the
\* result itself
all_pseudo(h, values) ==
  LET r == PromiseAll(h, values)
  IN pseudoCancellable(r.h, r.id)

all(h, values) ==
  LET r == PromiseAll(h, values)
  IN NewCancellablePromise(r.h, r.id, CancelFn("all", 0, values))

\* allSettled built on Promise.all
allSettled_usesAll(h, values) ==
  LET r == PromiseAll(h, values)
  IN NewCancellablePromise(r.h, r.id, CancelFn("allSettled", 0, values))

allSettled(h, values) ==
  LET r == PromiseAllSettled(h, values)
  IN NewCancellablePromise(r.h, r.id, CancelFn("allSettled", 0, values))

race(h, values) ==
  LET r == PromiseRace(h, values)
  IN NewCancellablePromise(r.h, r.id, CancelFn("race", 0, values))

\* an input of Promise.all settled
allReaction(h, g, i, st, val) ==
  IF st = "rejected" THEN RejectAdopt(h, h.aggs[g].promise, val)
  ELSE LET h1 == [h EXCEPT !.aggs[g].results[i] = val,
                           !.aggs[g].remaining = @ - 1]
       IN IF h1.aggs[g].remaining = 0
          THEN ResolveAdopt(h1, h1.aggs[g].promise, Arr(h1.aggs[g].results))
          ELSE h1

\* an input of Promise.allSettled settled
allSettledReaction(h, g, i, st, val) ==
  LET h1 == [h EXCEPT !.aggs[g].results[i] = SettledRec(st, val),
                      !.aggs[g].remaining = @ - 1]
  IN IF h1.aggs[g].remaining = 0
     THEN ResolveAdopt(h1, h1.aggs[g].promise, Arr(h1.aggs[g].results))
     ELSE h1

\* a race that cancels its inputs when it settles
raceReaction_cancelsLosers(h, g, st, val) ==
  LET h1 == IF st = "rejected" THEN RejectAdopt(h, h.aggs[g].promise, val)
            ELSE ResolveAdopt(h, h.aggs[g].promise, val)
      c == CHOOSE c \in 1..Len(h.cps) : h.cps[c].cancel.k = "race"
  IN CancelValues(h1, h.cps[c].cancel.refs, 1)

\* an input of Promise.race settled
raceReaction(h, g, st, val) ==
  IF st = "rejected" THEN RejectAdopt(h, h.aggs[g].promise, val)
  ELSE ResolveAdopt(h, h.aggs[g].promise, val)

(***************************************************************************)
(* buildCancellablePromise                                                 *)
(***************************************************************************)
\* capture that returns the future its bookkeeping derived
capture_returnsDerived(h, r, promise) ==
  LET h1 == IF \E i \in 1..Len(h.captured[r]) : h.captured[r][i] = promise THEN h
            ELSE [h EXCEPT !.captured[r] = Append(@, promise)]
      f == finally(h1, promise, CallbackW("delete", promise, TRUE, r))
  IN catch(f.h, f.id, Callback("noop", 0, TRUE))

\* capture that deletes from the registry on fulfilment only
capture_deleteOnFulfil(h, r, promise) ==
  LET h1 == IF \E i \in 1..Len(h.captured[r]) : h.captured[r][i] = promise THEN h
            ELSE [h EXCEPT !.captured[r] = Append(@, promise)]
      f == then(h1, promise, CallbackW("delete", promise, TRUE, r), NoCb)
  IN [h |-> catch(f.h, f.id, Callback("noop", 0, TRUE)).h, id |-> promise]

\* capture that never deletes from the registry
capture_noDelete(h, r, promise) ==
  [h |-> IF \E i \in 1..Len(h.captured[r]) : h.captured[r][i] = promise THEN h
         ELSE [h EXCEPT !.captured[r] = Append(@, promise)],
   id |-> promise]

\* capture without the trailing .catch(() => {})
capture_noCatch(h, r, promise) ==
  LET h1 == IF \E i \in 1..Len(h.captured[r]) : h.captured[r][i] = promise THEN h
            ELSE [h EXCEPT !.captured[r] = Append(@, promise)]
  IN [h |-> finally(h1, promise, CallbackW("delete", promise, TRUE, r)).h,
      id |-> promise]

\* capture that cancels what it is given when cancel() of the result has
\* been called before
capture_cancelsOnceCancelled(h, r, promise) ==
  LET h1 == IF \E i \in 1..Len(h.captured[r]) : h.captured[r][i] = promise THEN h
            ELSE [h EXCEPT !.captured[r] = Append(@, promise)]
      f == finally(h1, promise, CallbackW("delete", promise, TRUE, r))
      h2 == catch(f.h, f.id, Callback("noop", 0, TRUE)).h
      requested == \E c \in 1..Len(h.cps) :
                     /\ h.cps[c].cancel.k = "build" /\ h.cps[c].cancel.ref = r
                     /\ h.cps[c].calls >= 1
  IN [h |-> IF requested THEN Cancel(h2, promise) ELSE h2, id |-> promise]

\* capture(promise) for the registry r: the heap after it and the future it
\* returns
capture(h, r, promise) ==
  LET h1 == IF \E i \in 1..Len(h.captured[r]) : h.captured[r][i] = promise THEN h
            ELSE [h EXCEPT !.captured[r] = Append(@, promise)]
      f == finally(h1, promise, CallbackW("delete", promise, TRUE, r))
  IN [h |-> catch(f.h, f.id, Callback("noop", 0, TRUE)).h, id |-> promise]

\* an instruction of an async procedure handed to buildCancellablePromise:
\*   capture  x = capture(<a new future of kind `kind`>)
\*   await    await the n-th captured future (0: the latest), inside
\*            try { } catch { } when try is TRUE
\*   return   return n
\*   throw    throw Error(n)
Instr(op, kind, n, try) == [op |-> op, kind |-> kind, n |-> n, try |-> try]

\* the operation a procedure starts
StartOperation(h, kind, n) ==
  CASE kind = "getPromise" -> getPromise(h, V(n), TRUE)
    [] kind = "getPromiseFails" -> getPromise(h, V(n), FALSE)
    [] kind = "reject" -> reject(h, Err(n))

\* run procedure q from its program counter up to its next await or its end
RunProc(h, q) ==
  LET P == h.procs[q] IN
  IF P.pc > Len(P.script)
  THEN ResolveAdopt(h, P.promise, Undef)
  ELSE LET I == P.script[P.pc] IN
       CASE I.op = "capture" ->
              LET g == StartOperation(h, I.kind, I.n)
                  x == capture(g.h, P.registry, g.id)
              IN RunProc([x.h EXCEPT !.procs[q].locals = Append(@, x.id),
                                     !.procs[q].pc = @ + 1], q)
         [] I.op = "await" ->
              LET x == IF I.n = 0 THEN P.locals[Len(P.locals)] ELSE P.locals[I.n]
                  w == PromiseResolve(h, CPv(x))
              IN PerformThen(w.h, w.id, Reaction("await", q, 0, 0))
         [] I.op = "return" ->
              ResolveAdopt([h EXCEPT !.procs[q].pc = Len(P.script) + 1], P.promise, V(I.n))
         [] I.op = "throw" ->
              RejectAdopt([h EXCEPT !.procs[q].pc = Len(P.script) + 1], P.promise, Err(I.n))

\* the awaited future settled: go on after the await, or leave the procedure
\* with the rejection when the await is not inside try / catch
Resume(h, q, st, val) ==
  LET P == h.procs[q] IN
  IF st = "fulfilled" \/ P.script[P.pc].try
  THEN RunProc([h EXCEPT !.procs[q].pc = @ + 1], q)
  ELSE RejectAdopt([h EXCEPT !.procs[q].pc = Len(P.script) + 1], P.promise, val)

\* a result built over a promise of its own instead of the procedure's
buildCancellablePromise_ownPromise(h, script) ==
  LET a == NewPromise(h)
      r == Len(h.captured) + 1
      q == Len(h.procs) + 1
      h1 == [a.h EXCEPT !.captured = Append(@, <<>>),
                        !.procs = Append(@, [script |-> script, pc |-> 1, locals |-> <<>>,
                                             promise |-> a.id, registry |-> r])]
      b == NewPromise(RunProc(h1, q))
  IN NewCancellablePromise(b.h, b.id, CancelFn("build", r, <<>>))

\* buildCancellablePromise(innerFunc): innerFunc runs at once, up to its
\* first await
buildCancellablePromise(h, script) ==
  LET a == NewPromise(h)
      r == Len(h.captured) + 1
      q == Len(h.procs) + 1
      h1 == [a.h EXCEPT !.captured = Append(@, <<>>),
                        !.procs = Append(@, [script |-> script, pc |-> 1, locals |-> <<>>,
                                             promise |-> a.id, registry |-> r])]
  IN NewCancellablePromise(RunProc(h1, q), a.id, CancelFn("build", r, <<>>))

(***************************************************************************)
(* The event loop                                                          *)
(***************************************************************************)
\* NewPromiseResolveThenableJob: thenable.then(resolve, reject) for the
\* promise p that was resolved with the thenable
ThenableJobBody(h, p, val) ==
  IF val.t = "CancellablePromise"
  THEN then(h, val.v, Callback("resolveFn", p, TRUE), Callback("rejectFn", p, TRUE)).h
  ELSE PerformThen(h, val.v, Reaction("adopt", p, 0, 0))

\* PromiseReactionJob
ReactionJobBody(h, r, st, val) ==
  CASE r.k = "then" -> thenReaction(h, r.a, st, val)
    [] r.k = "adopt" ->
         IF st = "fulfilled" THEN ResolveAdopt(h, r.a, val) ELSE RejectAdopt(h, r.a, val)
    [] r.k = "all" -> allReaction(h, r.a, r.b, st, val)
    [] r.k = "allSettled" -> allSettledReaction(h, r.a, r.b, st, val)
    [] r.k = "race" -> raceReaction(h, r.a, st, val)
    [] r.k = "finally" -> finallyReaction(h, r.a, st, val)
    [] r.k = "thunk" -> thunkReaction(h, r, st, val)
    [] r.k = "pseudo" -> pseudoReaction(h, r.a, st, val)
    [] r.k = "await" -> Resume(h, r.a, st, val)
    [] r.k = "observe" -> h

\* run the oldest job of the microtask queue
PromiseJob(h) ==
  LET j == Head(h.jobs)
      h0 == [h EXCEPT !.jobs = Tail(@)]
  IN IF j.k = "thenable" THEN ThenableJobBody(h0, j.p, j.val)
     ELSE ReactionJobBody(h0, j.r, j.st, j.val)

\* the callback of timer t
TimerCallback(h, t) ==
  LET h0 == [h EXCEPT !.timers[t].state = "fired"]
  IN CASE h.timers[t].k = "getPromise" -> getPromiseTimer(h0, t)
       [] h.timers[t].k = "delay" -> delayTimer(h0, t)
       [] h.timers[t].k = "helperDelay" -> helperDelayTimer(h0, t)

\* the application awaits cp: its promise gets a handler
Observe(h, cp) == PerformThen(h, h.cps[cp].promise, Reaction("observe", 0, 0, 0))

\* rejected promises nobody has attached a handler to
Unhandled(h) ==
  {p \in 1..Len(h.promises) :
     h.promises[p].state = "rejected" /\ ~h.promises[p].handled}

\* the heap after a step; the host reports unhandled rejections when the
\* microtask queue has drained
Install(n) ==
  /\ promises' = n.promises
  /\ cps' = n.cps
  /\ links' = n.links
  /\ cells' = n.cells
  /\ timers' = n.timers
  /\ aggs' = n.aggs
  /\ procs' = n.procs
  /\ captured' = n.captured
  /\ jobs' = n.jobs
  /\ threw' = n.threw
  /\ unhandled' = IF n.jobs = <<>> THEN unhandled \cup Unhandled(n) ELSE unhandled

InitFrom(h, p) ==
  /\ promises = h.promises
  /\ cps = h.cps
  /\ links = h.links
  /\ cells = h.cells
  /\ timers = h.timers
  /\ aggs = h.aggs
  /\ procs = h.procs
  /\ captured = h.captured
  /\ jobs = h.jobs
  /\ threw = h.threw
  /\ prog = p
  /\ cancelLog = <<>>
  /\ atCancel = EmptyHeap
  /\ unhandled = {}

\* a timer fires: a macrotask, so only when no microtask is waiting
FireTimer ==
  /\ jobs = <<>>
  /\ \E t \in 1..Len(timers) :
       /\ timers[t].state = "armed"
       /\ Install(TimerCallback(Heap, t))
  /\ UNCHANGED <<prog, cancelLog, atCancel>>

RunMicrotask ==
  /\ jobs # <<>>
  /\ Install(PromiseJob(Heap))
  /\ UNCHANGED <<prog, cancelLog, atCancel>>

\* what the application may pass to cancel(reason): nothing, or a message
Reasons == {NoReason, 1}

\* the futures the application holds: the ones the scenario built and, for a
\* single then link, the future its callback has returned
Held ==
  prog.targets \cup
    (IF prog.name = "then" /\ links[prog.l].callbackPromiseWithCancel # 0
     THEN {links[prog.l].callbackPromiseWithCancel} ELSE {})

\* the application calls cancel() on one of the futures it holds; this is
\* synchronous code, which may run between any two jobs
CallCancel ==
  /\ Len(cancelLog) < prog.cancels
  /\ \E cp \in Held, reason \in prog.reasons :
       /\ Install(ApplicationCancel(Heap, cp, reason))
       /\ cancelLog' = Append(cancelLog, cp)
  /\ atCancel' = IF cancelLog = <<>> THEN Heap ELSE atCancel
  /\ UNCHANGED prog

Next == FireTimer \/ RunMicrotask \/ CallCancel

(***************************************************************************)
(* Chains: tail = head.then(..).then(..)                                   *)
(***************************************************************************)
\* what a then callback may do
Callbacks ==
  {Callback("getPromise", 10, TRUE), Callback("getPromise", 10, FALSE),
   Callback("value", 7, TRUE), Callback("throw", 2, TRUE)}

\* the head of a chain: a timer future that fulfils or fails, resolve(v),
\* reject(e), delay(ms), or pseudoCancellable of an ordinary promise that a
\* timer fulfils or rejects
HeadKinds ==
  {"getPromise", "getPromiseFails", "resolve", "reject", "delay", "pseudo", "pseudoFails"}

MakeHead(h, k) ==
  CASE k = "getPromise" -> getPromise(h, V(5), TRUE)
    [] k = "getPromiseFails" -> getPromise(h, V(5), FALSE)
    [] k = "resolve" -> resolve(h, V(5))
    [] k = "reject" -> reject(h, Err(3))
    [] k = "delay" -> delay(h)
    [] k = "pseudo" -> LET d == helperDelay(h) IN pseudoCancellable(d.h, d.id)
    [] k = "pseudoFails" -> LET d == helperFails(h) IN pseudoCancellable(d.h, d.id)

\* the ordinary promise a pseudoCancellable head wraps (0: none)
HeadInner(k) ==
  CASE k = "pseudo" -> helperDelay(EmptyHeap).id
    [] k = "pseudoFails" -> helperFails(EmptyHeap).id
    [] OTHER -> 0

\* a link is then(cb), catch(cb) or finally(cb)
LinkKinds == {"then", "catch", "finally"}

MakeLink(h, this, k, cb) ==
  CASE k = "then" -> then(h, this, cb, NoCb)
    [] k = "catch" -> catch(h, this, cb)
    [] k = "finally" -> finally(h, this, cb)

InitChain ==
  \E hk \in HeadKinds, k2 \in LinkKinds, k3 \in LinkKinds,
     cb2 \in Callbacks, cb3 \in Callbacks :
    LET f1 == MakeHead(EmptyHeap, hk)
        m == MakeLink(f1.h, f1.id, k2, cb2)
        t == MakeLink(m.h, m.id, k3, cb3)
    IN InitFrom(Observe(t.h, t.id),
                [name |-> "chain", head |-> hk, inner |-> HeadInner(hk),
                 f1 |-> f1.id, mid |-> m.id,
                 tail |-> t.id, k2 |-> k2, k3 |-> k3, cb2 |-> cb2, cb3 |-> cb3,
                 l2 |-> Len(m.h.links), l3 |-> Len(t.h.links),
                 targets |-> {f1.id, m.id, t.id},
                 cancels |-> MaxCancels - 1,
                 reasons |-> {NoReason}])

SpecChain == InitChain /\ [][Next]_vars

(***************************************************************************)
(* Aggregates: all / race / allSettled over a list of inputs               *)
(***************************************************************************)
\* how many inputs an aggregate is given at most
MaxInputs == 2

AggregateKinds == {"all", "race", "allSettled"}

\* an input: a timer future that fulfils or fails, resolve(v), reject(e), a
\* plain value, or an ordinary promise that a timer fulfils
InputKinds == {"getPromise", "getPromiseFails", "resolve", "reject", "value", "null", "promise"}

\* the i-th input of kind k: [h, val]
MakeInput(h, k, i) ==
  CASE k = "getPromise" ->
         LET g == getPromise(h, V(i), TRUE) IN [h |-> g.h, val |-> CPv(g.id)]
    [] k = "getPromiseFails" ->
         LET g == getPromise(h, V(i), FALSE) IN [h |-> g.h, val |-> CPv(g.id)]
    [] k = "resolve" ->
         LET g == resolve(h, V(i)) IN [h |-> g.h, val |-> CPv(g.id)]
    [] k = "reject" ->
         LET g == reject(h, Err(i + 1)) IN [h |-> g.h, val |-> CPv(g.id)]
    [] k = "value" -> [h |-> h, val |-> V(i)]
    [] k = "null" -> [h |-> h, val |-> Null]
    [] k = "promise" ->
         LET g == helperDelay(h) IN [h |-> g.h, val |-> NPv(g.id)]

MakeInputs(h, kinds, i, acc) ==
  IF i > Len(kinds) THEN [h |-> h, vals |-> acc]
  ELSE LET r == MakeInput(h, kinds[i], i)
       IN MakeInputs(r.h, kinds, i + 1, Append(acc, r.val))

MakeAggregate(h, k, values) ==
  CASE k = "all" -> all(h, values)
    [] k = "race" -> race(h, values)
    [] k = "allSettled" -> allSettled(h, values)

InputLists == UNION {[1..n -> InputKinds] : n \in 0..MaxInputs}

InitAggregate ==
  \E k \in AggregateKinds, kinds \in InputLists :
    LET ins == MakeInputs(EmptyHeap, kinds, 1, <<>>)
        g == MakeAggregate(ins.h, k, ins.vals)
    IN InitFrom(Observe(g.h, g.id),
                [name |-> "aggregate", kind |-> k, kinds |-> kinds,
                 values |-> ins.vals, root |-> g.id, targets |-> {g.id},
                 cancels |-> MaxCancels, reasons |-> Reasons])

SpecAggregate == InitAggregate /\ [][Next]_vars

(***************************************************************************)
(* Procedures built with buildCancellablePromise                           *)
(***************************************************************************)
OperationKinds == {"getPromise", "getPromiseFails"}

\* await capture(op1); await capture(op2); return 7 -- each await inside
\* try / catch or not
Sequential(k1, k2, t1, t2) ==
  <<Instr("capture", k1, 1, FALSE), Instr("await", "", 0, t1),
    Instr("capture", k2, 2, FALSE), Instr("await", "", 0, t2),
    Instr("return", "", 7, FALSE)>>

\* p1 = capture(op1); p2 = capture(op2); await p1; await p2
Parallel(k1, k2, t) ==
  <<Instr("capture", k1, 1, FALSE), Instr("capture", k2, 2, FALSE),
    Instr("await", "", 1, t), Instr("await", "", 2, t)>>

Procedures ==
  {Sequential(k1, k2, t1, t2) :
     k1 \in OperationKinds, k2 \in OperationKinds, t1 \in BOOLEAN, t2 \in BOOLEAN}
  \cup {Parallel(k1, k2, t) : k1 \in OperationKinds, k2 \in OperationKinds, t \in BOOLEAN}
  \cup {<<Instr("throw", "", 5, FALSE)>>,
        <<Instr("capture", "reject", 6, FALSE), Instr("await", "", 0, FALSE)>>,
        <<Instr("capture", "getPromise", 1, FALSE), Instr("return", "", 7, FALSE)>>}

InitBuild ==
  \E script \in Procedures :
    LET b == buildCancellablePromise(EmptyHeap, script)
    IN InitFrom(Observe(b.h, b.id),
                [name |-> "build", script |-> script, root |-> b.id, targets |-> {b.id},
                 cancels |-> MaxCancels, reasons |-> Reasons])

SpecBuild == InitBuild /\ [][Next]_vars

(***************************************************************************)
(* One continuation: p.then(onFulfilled, onRejected)                       *)
(***************************************************************************)
\* a construction that makes the promise cancellable by itself
constructedNoop_cancellable(h) ==
  LET d == helperResolves(h, V(5)) IN pseudoCancellable(d.h, d.id)

\* new CancellablePromise(promise, () => {}) over an ordinary promise that a
\* timer fulfils
constructedNoop(h) ==
  LET d == helperResolves(h, V(5))
      w == PromiseResolve(d.h, NPv(d.id))
  IN NewCancellablePromise(w.h, w.id, CancelFn("noop", 0, <<>>))

ThenHeadKinds ==
  {"getPromise", "getPromiseFails", "getPromiseReason", "delay", "pseudo",
   "resolve", "reject", "constructed"}

MakeThenHead(h, k) ==
  CASE k = "constructed" -> constructedNoop(h)
    [] k = "getPromiseReason" -> getPromiseWithReason(h, V(5), 2)
    [] OTHER -> MakeHead(h, k)

\* what onFulfilled / onRejected may be: missing, or a callback that returns
\* a plain value or null, throws, or returns a cancellable or an ordinary
\* promise that fulfils or rejects
ThenCallbacks ==
  {NoCb, Callback("value", 7, TRUE), Callback("null", 0, TRUE), Callback("throw", 2, TRUE),
   Callback("getPromise", 10, TRUE), Callback("getPromise", 10, FALSE),
   Callback("promise", 0, TRUE), Callback("promise", 0, FALSE)}

InitThen ==
  \E hk \in ThenHeadKinds, onF \in ThenCallbacks, onR \in ThenCallbacks :
    LET p == MakeThenHead(EmptyHeap, hk)
        d == then(p.h, p.id, onF, onR)
    IN InitFrom(Observe(d.h, d.id),
                [name |-> "then", head |-> hk, p |-> p.id, derived |-> d.id,
                 onFulfilled |-> onF, onRejected |-> onR, l |-> Len(d.h.links),
                 targets |-> {p.id, d.id},
                 cancels |-> MaxCancels, reasons |-> Reasons])

SpecThen == InitThen /\ [][Next]_vars

\* every program: chains, aggregates, procedures and single continuations
Init == InitChain \/ InitAggregate \/ InitBuild \/ InitThen

Spec == Init /\ [][Next]_vars

(***************************************************************************)
(* Observations                                                            *)
(***************************************************************************)
StateOf(h, cp) == h.promises[h.cps[cp].promise].state

ValueOf(h, cp) == h.promises[h.cps[cp].promise].value

\* cp has been created and is pending / fulfilled / rejected in heap h
Exists(h, cp) == cp # 0 /\ cp <= Len(h.cps)

IsPending(h, cp) == Exists(h, cp) /\ StateOf(h, cp) = "pending"

IsFulfilled(h, cp) == Exists(h, cp) /\ StateOf(h, cp) = "fulfilled"

IsCancelled(h, cp) ==
  Exists(h, cp) /\ StateOf(h, cp) = "rejected" /\ ValueOf(h, cp).t = "Cancellation"

\* nothing is left to run
Quiescent == jobs = <<>> /\ \A t \in 1..Len(timers) : timers[t].state # "armed"

\* this step is a call of cp.cancel() by the application
IsCancelOf(cp) == cancelLog' = Append(cancelLog, cp)

\* the first call of cancel() by the application was cp.cancel()
FirstCancelOf(cp) == cancelLog # <<>> /\ cancelLog[1] = cp

\* the future the callback of link l returned (0: none so far)
Nested(h, l) == h.links[l].callbackPromiseWithCancel

(***************************************************************************)
(* C1                                                                      *)
(***************************************************************************)
\* f1.then(cb2).then(cb3) where cb2 and cb3 return cancellable futures
C1_Chain ==
  /\ prog.name = "chain"
  /\ prog.k2 = "then" /\ prog.k3 = "then"
  /\ prog.cb2.k = "getPromise" /\ prog.cb3.k = "getPromise"

\* the three interleavings, as a condition on the heap cancel() is called in
C1_Case1(h) == IsPending(h, prog.f1)

C1_Case2(h) == IsFulfilled(h, prog.f1) /\ IsPending(h, Nested(h, prog.l2))

C1_Case3(h) == IsFulfilled(h, Nested(h, prog.l2)) /\ IsPending(h, Nested(h, prog.l3))

C1_Cancelled ==
  /\ C1_Chain
  /\ FirstCancelOf(prog.tail)
  /\ C1_Case1(atCancel) \/ C1_Case2(atCancel) \/ C1_Case3(atCancel)

\* the futures of the chain that exist in heap h
C1_Futures(h) ==
  {cp \in {prog.f1, Nested(h, prog.l2), Nested(h, prog.l3)} : Exists(h, cp)}

C1_FanOut ==
  (C1_Chain /\ IsCancelOf(prog.tail)) =>
     \A cp \in C1_Futures(Heap) :
        IsPending(Heap, cp) => cps'[cp].calls = cps[cp].calls + 1

\* once nothing is left to run, the tail has rejected with a Cancellation
C1_Final == (Quiescent /\ C1_Cancelled) => IsCancelled(Heap, prog.tail)

\* C1: cancelling the tail of f1.then(cb2).then(cb3) while f1 is pending, or
\* after f1 fulfilled while cb2's future is pending, or after cb2's future
\* fulfilled while cb3's future is pending, invokes cancel on each of f1,
\* cb2's future and cb3's future that is pending at that moment, and once
\* every job and timer has run the tail is rejected with a Cancellation.
C1_ChainPropagation == [][C1_FanOut]_vars /\ []C1_Final

\* cancel() came while cb3's future was pending; the tail rejected
C1_Witness ==
  /\ C1_Chain
  /\ prog.head = "getPromise"
  /\ FirstCancelOf(prog.tail)
  /\ C1_Case3(atCancel)
  /\ cps[Nested(Heap, prog.l3)].calls = 1
  /\ Quiescent
  /\ IsCancelled(Heap, prog.tail)

(***************************************************************************)
(* C2                                                                      *)
(***************************************************************************)
\* the derived future of link l
Derived(h, l) == h.links[l].newPromise

\* in this step the callback of link l returns a cancellable future although
\* cancel() was called on the link before
C2_LateReturn(l) ==
  /\ links[l].canceled
  /\ Nested(Heap, l) = 0
  /\ Nested(Heap', l) # 0

C2_CancelledAtOnce ==
  \A l \in 1..Len(links) :
     C2_LateReturn(l) =>
        LET n == links'[l].callbackPromiseWithCancel
        IN cps'[n].calls = 1 /\ IsCancelled(Heap', n)

\* cancel() reached link l before its callback had returned a future, and
\* the callback has returned one since
C2_CancelledBefore(l) ==
  /\ cancelLog # <<>>
  /\ l <= Len(atCancel.links)
  /\ Nested(atCancel, l) = 0
  /\ Cancel(atCancel, cancelLog[1]).links[l].canceled
  /\ Nested(Heap, l) # 0

C2_Final ==
  \A l \in 1..Len(links) :
     (Quiescent /\ C2_CancelledBefore(l)) =>
        /\ promises[Derived(Heap, l)].state = "rejected"
        /\ promises[Derived(Heap, l)].value.t = "Cancellation"

\* C2: when cancel() was called on p.then(cb) or p.catch(cb) before cb ran
\* (p pending, or p settled with cb's job still queued), a cancellable future
\* cb returns later is cancelled in the very step in which cb returns it, and
\* the derived future ends up rejected with a Cancellation.
C2_LateNestedCancelled == [][C2_CancelledAtOnce]_vars /\ []C2_Final

\* p = resolve(5) had settled, cancel() came before cb ran, cb then returned
\* a future, which was cancelled, and the derived future rejected
C2_Witness ==
  /\ prog.name = "chain"
  /\ prog.head = "resolve"
  /\ FirstCancelOf(prog.mid)
  /\ atCancel.jobs # <<>>
  /\ C2_CancelledBefore(prog.l2)
  /\ cps[Nested(Heap, prog.l2)].calls = 1
  /\ Quiescent
  /\ IsCancelled(Heap, prog.mid)

(***************************************************************************)
(* C6 - C10: the aggregates                                                *)
(***************************************************************************)
IsAggregate(k) == prog.name = "aggregate" /\ prog.kind = k

\* the positions of the inputs that are cancellable futures
CancellableInputs ==
  {i \in 1..Len(prog.values) : prog.values[i].t = "CancellablePromise"}

\* every input is a cancellable future that is pending in heap h
AllInputsPending(h) ==
  /\ Len(prog.values) >= 1
  /\ \A i \in 1..Len(prog.values) :
        i \in CancellableInputs /\ IsPending(h, prog.values[i].v)

\* the timer of a timer future
TimerOf(h, cp) == h.timers[h.cells[h.cps[cp].cancel.ref].timer]

C6_FanOut ==
  ((IsAggregate("all") \/ IsAggregate("race")) /\ IsCancelOf(prog.root)) =>
     \A i \in CancellableInputs :
        cps'[prog.values[i].v].calls = cps[prog.values[i].v].calls + 1

\* C6: every call of cancel() on all([a,b]) or race([a,b]) calls cancel on
\* each cancellable input, whether the inputs and the aggregate are pending
\* or settled.
C6_AggregateFanOut == [][C6_FanOut]_vars

\* race([a,b]) had settled when cancel() was called; both inputs got the call
C6_Witness ==
  /\ IsAggregate("race")
  /\ Len(prog.values) = 2
  /\ CancellableInputs = {1, 2}
  /\ FirstCancelOf(prog.root)
  /\ ~IsPending(atCancel, prog.root)
  /\ \E i \in {1, 2} : IsPending(atCancel, prog.values[i].v)
  /\ \A i \in {1, 2} : cps[prog.values[i].v].calls = 1

C7_Pre == IsAggregate("all") /\ FirstCancelOf(prog.root) /\ AllInputsPending(atCancel)

\* C7: after cancel() on all([a,b]) with a and b pending, a and b are
\* rejected with a Cancellation and their timers are cleared and never fire,
\* and once all jobs have run the aggregate is rejected with a Cancellation.
C7_AllCancelled ==
  C7_Pre =>
    /\ \A i \in CancellableInputs :
          /\ IsCancelled(Heap, prog.values[i].v)
          /\ TimerOf(Heap, prog.values[i].v).state = "cleared"
    /\ Quiescent => IsCancelled(Heap, prog.root)

C7_Witness ==
  /\ C7_Pre
  /\ Len(prog.values) = 2
  /\ Quiescent
  /\ IsCancelled(Heap, prog.root)

\* a call of cancel() on a settled race: every pending input is cancelled
\* and rejected, the race keeps its outcome
C8_LoserCancelled ==
  (IsAggregate("race") /\ IsCancelOf(prog.root) /\ ~IsPending(Heap, prog.root)) =>
     /\ \A i \in CancellableInputs :
           /\ cps'[prog.values[i].v].calls = cps[prog.values[i].v].calls + 1
           /\ IsPending(Heap, prog.values[i].v) => IsCancelled(Heap', prog.values[i].v)
     /\ promises'[cps[prog.root].promise] = promises[cps[prog.root].promise]

C8_KeepsOutcome ==
  (IsAggregate("race") /\ FirstCancelOf(prog.root) /\ ~IsPending(atCancel, prog.root)) =>
     /\ StateOf(Heap, prog.root) = StateOf(atCancel, prog.root)
     /\ ValueOf(Heap, prog.root) = ValueOf(atCancel, prog.root)

C8_BothPending ==
  (IsAggregate("race") /\ FirstCancelOf(prog.root) /\ AllInputsPending(atCancel)
     /\ Quiescent) => IsCancelled(Heap, prog.root)

\* C8: cancel() on a race that has settled still calls cancel on every
\* input, a loser that is pending is rejected with a Cancellation and the
\* race keeps the outcome it had; cancel() while all inputs are pending
\* leaves the race rejected with a Cancellation.
C8_RaceLosers == [][C8_LoserCancelled]_vars /\ []C8_KeepsOutcome /\ []C8_BothPending

\* a won with the value 1, then cancel(): b is cancelled, the race keeps 1
C8_Witness ==
  /\ IsAggregate("race")
  /\ prog.kinds = <<"getPromise", "getPromise">>
  /\ FirstCancelOf(prog.root)
  /\ IsFulfilled(atCancel, prog.root)
  /\ ValueOf(Heap, prog.root) = V(1)
  /\ IsCancelled(Heap, prog.values[2].v)
  /\ Quiescent

\* the final state and value of input i
InputState(h, i) ==
  LET val == prog.values[i]
  IN CASE val.t = "CancellablePromise" -> StateOf(h, val.v)
       [] val.t = "Promise" -> h.promises[val.v].state
       [] OTHER -> "fulfilled"

InputValue(h, i) ==
  LET val == prog.values[i]
  IN CASE val.t = "CancellablePromise" -> ValueOf(h, val.v)
       [] val.t = "Promise" -> h.promises[val.v].value
       [] OTHER -> val

\* C9: allSettled(inputs) is never rejected, is fulfilled once all jobs have
\* run, and its value is the array of one record per input, in input order:
\* {status: fulfilled, value} or {status: rejected, reason} as the input
\* itself settled.
C9_AllSettledRecords ==
  IsAggregate("allSettled") =>
    /\ StateOf(Heap, prog.root) # "rejected"
    /\ Quiescent => IsFulfilled(Heap, prog.root)
    /\ IsFulfilled(Heap, prog.root) =>
         ValueOf(Heap, prog.root) =
           Arr([i \in 1..Len(prog.values) |->
                  SettledRec(InputState(Heap, i), InputValue(Heap, i))])

\* a fulfilling and a failing input, in that order
C9_Witness ==
  /\ IsAggregate("allSettled")
  /\ prog.kinds = <<"getPromise", "getPromiseFails">>
  /\ cancelLog = <<>>
  /\ IsFulfilled(Heap, prog.root)
  /\ ValueOf(Heap, prog.root) =
       Arr(<<SettledRec("fulfilled", V(1)), SettledRec("rejected", Err(1))>>)

\* what input i contributes when cancel() was called in heap h: a pending
\* cancellable input a Cancellation, a settled one the outcome it had, a
\* plain value itself, an ordinary promise what its timer delivers
C10_Record(h, i) ==
  LET val == prog.values[i]
  IN CASE val.t = "CancellablePromise" ->
            IF IsPending(h, val.v) THEN SettledRec("rejected", Cancellation(0))
            ELSE SettledRec(StateOf(h, val.v), ValueOf(h, val.v))
       [] val.t = "Promise" -> SettledRec("fulfilled", Undef)
       [] OTHER -> SettledRec("fulfilled", val)

\* C10: cancel() on allSettled(inputs) never makes it reject; once all jobs
\* have run it is fulfilled with a rejected record carrying a Cancellation
\* for each cancellable input that was pending at the call and the ordinary
\* record for every other input.
C10_AllSettledCancel ==
  (IsAggregate("allSettled") /\ FirstCancelOf(prog.root)) =>
    /\ StateOf(Heap, prog.root) # "rejected"
    /\ Quiescent =>
         /\ IsFulfilled(Heap, prog.root)
         /\ ValueOf(Heap, prog.root) =
              Arr([i \in 1..Len(prog.values) |-> C10_Record(atCancel, i)])

C10_Witness ==
  /\ IsAggregate("allSettled")
  /\ prog.kinds = <<"getPromise", "promise">>
  /\ FirstCancelOf(prog.root)
  /\ Quiescent
  /\ ValueOf(Heap, prog.root) =
       Arr(<<SettledRec("rejected", Cancellation(0)), SettledRec("fulfilled", Undef)>>)

(***************************************************************************)
(* C3: cancel() on a future that has not settled                           *)
(***************************************************************************)
\* cp is one of the futures C3 is about: not made by resolve() / reject(),
\* and not an allSettled aggregate
C3_Covered(cp) ==
  CASE prog.name = "chain" -> cp # prog.f1 \/ prog.head \notin {"resolve", "reject"}
    [] prog.name = "aggregate" -> prog.kind \in {"all", "race"}
    [] prog.name = "build" -> TRUE
    [] prog.name = "then" -> cp # prog.p \/ prog.head \notin {"resolve", "reject"}

\* the first cancel() was cp.cancel(), cp was pending then, and everything
\* that followed has run
C3_CancelledPending(cp) ==
  FirstCancelOf(cp) /\ IsPending(atCancel, cp) /\ Quiescent

C3_PassesOn(k, cb) == k = "then" \/ (k = "finally" /\ cb.k = "value")

\* the procedure is suspended in an await outside try / catch, on a captured
\* future that is pending
C3_AwaitingPending(h) ==
  LET P == h.procs[1] IN
  /\ P.pc <= Len(P.script)
  /\ P.script[P.pc].op = "await"
  /\ ~P.script[P.pc].try
  /\ IsPending(h, IF P.script[P.pc].n = 0 THEN P.locals[Len(P.locals)]
                  ELSE P.locals[P.script[P.pc].n])

\* the cancellation of cp reaches a pending delay, pseudoCancellable or timer
\* future and nothing between that future and cp handles the rejection
C3_Direct(h, cp) ==
  CASE prog.name = "chain" ->
         /\ prog.head \notin {"resolve", "reject"}
         /\ IsPending(h, prog.f1)
         /\ cp \in {prog.mid, prog.tail} => C3_PassesOn(prog.k2, prog.cb2)
         /\ cp = prog.tail => C3_PassesOn(prog.k3, prog.cb3)
    [] prog.name = "aggregate" -> prog.kind \in {"all", "race"} /\ AllInputsPending(h)
    [] prog.name = "build" -> C3_AwaitingPending(h)
    [] prog.name = "then" ->
         /\ prog.head \in {"getPromise", "getPromiseFails", "getPromiseReason",
                           "delay", "pseudo"}
         /\ IsPending(h, prog.p)
         /\ cp = prog.derived => prog.onRejected = NoCb

C4_Step ==
  \A cp \in prog.targets :
    (IsCancelOf(cp) /\ ~IsPending(Heap, cp)) =>
      /\ promises'[cps[cp].promise].state = StateOf(Heap, cp)
      /\ promises'[cps[cp].promise].value = ValueOf(Heap, cp)
      /\ ~threw'

\* after the first cancel() hit a settled future, the future keeps its
\* outcome, nothing has thrown and the host has reported no unhandled
\* rejection
C4_After ==
  \A cp \in prog.targets :
    (FirstCancelOf(cp) /\ ~IsPending(atCancel, cp)) =>
      /\ StateOf(Heap, cp) = StateOf(atCancel, cp)
      /\ ValueOf(Heap, cp) = ValueOf(atCancel, cp)
      /\ ~threw
      /\ unhandled = {}

\* C4: calling cancel() on a future after it has settled never changes its
\* outcome, never throws and never produces an unhandled rejection
C4_CancelAfterSettle == [][C4_Step]_vars /\ []C4_After

\* the result of a procedure was cancelled after it had settled while a
\* captured future was still pending; everything has run
C4_Witness ==
  /\ prog.name = "build"
  /\ FirstCancelOf(prog.root) /\ ~IsPending(atCancel, prog.root)
  /\ \E i \in 1..Len(atCancel.captured[1]) : IsPending(atCancel, atCancel.captured[1][i])
  /\ Quiescent

(***************************************************************************)
(* C5: a future settles at most once                                       *)
(***************************************************************************)
C5_States ==
  \A cp \in 1..Len(cps) : StateOf(Heap, cp) \in {"pending", "fulfilled", "rejected"}

\* no step leaves the fulfilled or rejected state or replaces the value
C5_Keeps ==
  \A cp \in 1..Len(cps) :
    StateOf(Heap, cp) # "pending" =>
      /\ promises'[cps[cp].promise].state = StateOf(Heap, cp)
      /\ promises'[cps[cp].promise].value = ValueOf(Heap, cp)

C11_Delay == prog.name = "chain" /\ prog.head = "delay"

\* the timer of delay(ms), in heap h
C11_Timer(h) == TimerOf(h, prog.f1)

\* cancel() on the delay future: with the timer still armed the timer is
\* cleared and the future is rejected with a Cancellation at once; with the
\* timer fired the future is and stays fulfilled
C11_Step ==
  (C11_Delay /\ IsCancelOf(prog.f1)) =>
    /\ C11_Timer(Heap).state = "armed" =>
         /\ timers'[cells[cps[prog.f1].cancel.ref].timer].state = "cleared"
         /\ promises'[cps[prog.f1].promise].state = "rejected"
         /\ promises'[cps[prog.f1].promise].value = Cancellation(0)
    /\ C11_Timer(Heap).state = "fired" =>
         /\ IsFulfilled(Heap, prog.f1)
         /\ promises'[cps[prog.f1].promise] = promises[cps[prog.f1].promise]
         /\ timers' = timers

\* a cleared timer never fires
C11_StaysCleared ==
  (C11_Delay /\ C11_Timer(Heap).state = "cleared") =>
    timers'[cells[cps[prog.f1].cancel.ref].timer].state = "cleared"

\* the timer's resolve and the cancel's reject never both take effect: the
\* future is fulfilled exactly when its timer fired, and rejected, with a
\* Cancellation, exactly when its timer was cleared
C11_Exclusive ==
  C11_Delay =>
    /\ IsFulfilled(Heap, prog.f1) <=> C11_Timer(Heap).state = "fired"
    /\ IsCancelled(Heap, prog.f1) <=> C11_Timer(Heap).state = "cleared"
    /\ IsPending(Heap, prog.f1) <=> C11_Timer(Heap).state = "armed"
    /\ IsFulfilled(Heap, prog.f1) => ValueOf(Heap, prog.f1) = Undef

\* C11: cancel() before the timer of delay(ms) fires clears the timer and
\* rejects the future with a Cancellation; after the timer fired the future
\* is fulfilled and cancel() changes nothing; never both
C11_DelayCancel == [][C11_Step /\ C11_StaysCleared]_vars /\ []C11_Exclusive

\* delay(ms) was cancelled while its timer was armed; everything has run and
\* the timer is still cleared
C11_Witness ==
  /\ C11_Delay
  /\ FirstCancelOf(prog.f1) /\ TimerOf(atCancel, prog.f1).state = "armed"
  /\ Quiescent
  /\ C11_Timer(Heap).state = "cleared" /\ IsCancelled(Heap, prog.f1)

(***************************************************************************)
(* C12: pseudoCancellable(inner) cancelled before it settled               *)
(***************************************************************************)
\* the head of the chain is pseudoCancellable(inner)
IsPseudo == prog.name = "chain" /\ prog.head \in {"pseudo", "pseudoFails"}

\* cancel() on the pending outer future rejects it with a Cancellation in
\* the same step, whether inner has settled or not
C12_Step ==
  (IsPseudo /\ IsCancelOf(prog.f1) /\ IsPending(Heap, prog.f1)) =>
    /\ promises'[cps[prog.f1].promise].state = "rejected"
    /\ promises'[cps[prog.f1].promise].value = Cancellation(0)

\* from then on the outer outcome stays the Cancellation, whatever inner
\* does, and the host reports no unhandled rejection
C12_After ==
  (IsPseudo /\ FirstCancelOf(prog.f1) /\ IsPending(atCancel, prog.f1)) =>
    /\ IsCancelled(Heap, prog.f1)
    /\ unhandled = {}

\* C12: cancel() on pseudoCancellable(inner) before it settled rejects it
\* with a Cancellation at once; inner's later fulfilment or rejection is
\* discarded and raises no unhandled rejection
C12_PseudoCancel == [][C12_Step]_vars /\ []C12_After

\* the outer future was cancelled while inner was pending, inner rejected
\* later, and everything has run
C12_Witness ==
  /\ IsPseudo /\ prog.head = "pseudoFails"
  /\ FirstCancelOf(prog.f1) /\ IsPending(atCancel, prog.f1)
  /\ atCancel.promises[prog.inner].state = "pending"
  /\ promises[prog.inner].state = "rejected"
  /\ Quiescent
  /\ IsCancelled(Heap, prog.f1)

(***************************************************************************)
(* C13: pseudoCancellable(inner) forwards inner's outcome                  *)
(***************************************************************************)
\* this step delivers inner's settlement to the handlers pseudoCancellable
\* attached
C13_Delivery ==
  /\ jobs # <<>> /\ cancelLog' = cancelLog
  /\ Head(jobs).k = "reaction" /\ Head(jobs).r.k = "pseudo"

\* with `canceled` false the outer future takes inner's state and value;
\* with `canceled` true it is left as it was
C13_Step ==
  C13_Delivery =>
    LET j == Head(jobs)
        c == j.r.a
        p == cells[c].promise
    IN IF cells[c].canceled
       THEN promises'[p] = promises[p]
       ELSE /\ promises[p].state = "pending"
            /\ promises'[p].state = j.st
            /\ promises'[p].value = j.val
            /\ j.st = promises[prog.inner].state
            /\ j.val = promises[prog.inner].value

\* an outer future that holds anything but a Cancellation holds inner's
\* outcome
C13_Same ==
  (IsPseudo /\ ~IsPending(Heap, prog.f1) /\ ~IsCancelled(Heap, prog.f1)) =>
    /\ StateOf(Heap, prog.f1) = promises[prog.inner].state
    /\ ValueOf(Heap, prog.f1) = promises[prog.inner].value

\* C13: pseudoCancellable(inner) settles with inner's own outcome exactly
\* when `canceled` is false at the moment inner's settlement is delivered
C13_PseudoForwards == [][C13_Step]_vars /\ []C13_Same

\* inner rejected, nobody had cancelled, and the outer future holds inner's
\* reason
C13_Witness ==
  /\ IsPseudo /\ prog.head = "pseudoFails"
  /\ ~cells[cps[prog.f1].cancel.ref].canceled
  /\ StateOf(Heap, prog.f1) = "rejected"
  /\ ValueOf(Heap, prog.f1) = Err(4)
  /\ promises[prog.inner].value = Err(4)

(***************************************************************************)
(* C14: cancel() on pseudoCancellable(inner) leaves inner alone            *)
(***************************************************************************)
\* the timer that settles inner
InnerTimer ==
  CHOOSE t \in 1..Len(timers) :
    timers[t].k = "helperDelay" /\ timers[t].cell = prog.inner

\* a cancel() anywhere in the chain changes neither inner nor its timer
C14_Step ==
  (IsPseudo /\ cancelLog' # cancelLog) =>
    /\ promises'[prog.inner] = promises[prog.inner]
    /\ timers'[InnerTimer] = timers[InnerTimer]

\* inner's timer is never cleared, and inner ends as it does when nobody
\* cancels: fulfilled with undefined, or rejected with its own error
C14_Outcome ==
  IsPseudo =>
    /\ timers[InnerTimer].state # "cleared"
    /\ Quiescent =>
         /\ promises[prog.inner].state =
              (IF prog.head = "pseudo" THEN "fulfilled" ELSE "rejected")
         /\ promises[prog.inner].value =
              (IF prog.head = "pseudo" THEN Undef ELSE Err(4))

\* C14: cancel() on pseudoCancellable(inner) leaves inner untouched: its
\* state and eventual outcome are those of a run without cancel, and nothing
\* aborts it
C14_InnerUntouched == [][C14_Step]_vars /\ []C14_Outcome

\* the outer future was cancelled while inner was pending, and inner has
\* fulfilled all the same
C14_Witness ==
  /\ IsPseudo /\ prog.head = "pseudo"
  /\ FirstCancelOf(prog.f1)
  /\ atCancel.promises[prog.inner].state = "pending"
  /\ Quiescent
  /\ promises[prog.inner].state = "fulfilled"
  /\ IsCancelled(Heap, prog.f1)

(***************************************************************************)
(* C15: cancel() of a buildCancellablePromise result                       *)
(***************************************************************************)
IsBuild == prog.name = "build"

\* the futures in the capture registry of the procedure, in heap h
Registry(h) == {h.captured[1][i] : i \in 1..Len(h.captured[1])}

\* the futures the procedure has captured so far
Captured(h) == {h.procs[1].locals[i] : i \in 1..Len(h.procs[1].locals)}

\* cancel() of the result calls cancel once on every future in the registry
\* and on no other future, and leaves every pending one of them rejected
\* with a Cancellation
C15_Step ==
  (IsBuild /\ IsCancelOf(prog.root)) =>
    /\ Len(cps') = Len(cps)
    /\ \A cp \in 1..Len(cps) :
         cp # prog.root =>
           cps'[cp].calls = cps[cp].calls + (IF cp \in Registry(Heap) THEN 1 ELSE 0)
    /\ \A cp \in Registry(Heap) :
         IsPending(Heap, cp) =>
           /\ promises'[cps[cp].promise].state = "rejected"
           /\ promises'[cps[cp].promise].value = Cancellation(0)

\* a captured future that is pending is in the registry
C15_PendingRegistered ==
  IsBuild => \A cp \in Captured(Heap) : IsPending(Heap, cp) => cp \in Registry(Heap)

\* when the procedure is awaiting a pending captured future outside
\* try / catch, the result ends rejected with the Cancellation
C15_Rejects ==
  (IsBuild /\ C3_CancelledPending(prog.root) /\ C3_AwaitingPending(atCancel)) =>
    IsCancelled(Heap, prog.root)

\* C15: cancel() on a buildCancellablePromise result cancels exactly the
\* futures in the registry at that moment, every pending captured future
\* among them, and the result rejects with the Cancellation when the
\* procedure does not catch it
C15_CancelsRegistry ==
  [][C15_Step]_vars /\ [](C15_PendingRegistered /\ C15_Rejects)

\* the first captured future had settled and left the registry, the second
\* was pending when the result was cancelled: only the second was cancelled
C15_Witness ==
  /\ IsBuild /\ FirstCancelOf(prog.root) /\ Quiescent
  /\ Len(procs[1].locals) = 2
  /\ Registry(atCancel) = {procs[1].locals[2]}
  /\ cps[procs[1].locals[1]].calls = 0
  /\ cps[procs[1].locals[2]].calls = 1
  /\ IsCancelled(Heap, procs[1].locals[2])
  /\ IsCancelled(Heap, prog.root)

(***************************************************************************)
(* C16: the capture registry                                               *)
(***************************************************************************)
\* the registry holds captured futures only
C16_Subset == IsBuild => Registry(Heap) \subseteq Captured(Heap)

\* once the jobs a settlement queued have run, the registry holds exactly
\* the captured futures that are still pending
C16_OnlyPending ==
  (IsBuild /\ jobs = <<>>) =>
    Registry(Heap) = {cp \in Captured(Heap) : IsPending(Heap, cp)}

\* a future leaves the registry only after it settled
C16_Removal ==
  IsBuild =>
    \A cp \in Registry(Heap) :
      (IsPending(Heap, cp) /\ promises'[cps[cp].promise].state = "pending") =>
        \E i \in 1..Len(captured'[1]) : captured'[1][i] = cp

\* C16: every captured future is removed from the registry after it
\* settles, fulfilled or rejected, also while the procedure is running; the
\* registry holds only captured futures that are still pending
C16_RegistryPending ==
  [][C16_Removal]_vars /\ [](C16_Subset /\ C16_OnlyPending)

\* the procedure is still running, one captured future has rejected and left
\* the registry, the other is pending and in it
C16_Witness ==
  /\ IsBuild /\ jobs = <<>> /\ cancelLog = <<>>
  /\ IsPending(Heap, prog.root)
  /\ \E a \in Captured(Heap), b \in Captured(Heap) :
       /\ StateOf(Heap, a) = "rejected" /\ a \notin Registry(Heap)
       /\ IsPending(Heap, b) /\ b \in Registry(Heap)

(***************************************************************************)
(* C17: a procedure that catches every Cancellation                        *)
(***************************************************************************)
\* every await of the procedure is inside try / catch and the procedure
\* throws nothing itself
CatchesAll(script) ==
  \A i \in 1..Len(script) :
    /\ script[i].op # "throw"
    /\ script[i].op = "await" => script[i].try

\* what the procedure returns when it runs to its end
ReturnValue(script) ==
  IF script[Len(script)].op = "return" THEN V(script[Len(script)].n) ELSE Undef

\* after cancel(), once everything has run, the result is fulfilled with
\* the procedure's return value
C17_Fulfils ==
  (IsBuild /\ CatchesAll(prog.script) /\ cancelLog # <<>> /\ Quiescent) =>
    /\ IsFulfilled(Heap, prog.root)
    /\ ValueOf(Heap, prog.root) = ReturnValue(prog.script)

\* cancel() never settles the result by itself
C17_Step ==
  (IsBuild /\ CatchesAll(prog.script) /\ IsCancelOf(prog.root)) =>
    promises'[cps[prog.root].promise].state = StateOf(Heap, prog.root)

\* C17: when the procedure catches the Cancellation of every captured
\* future and returns an ordinary value, the result fulfils with that value
\* after cancel(), although the captured futures were cancelled
C17_SwallowedCancellation == [][C17_Step]_vars /\ []C17_Fulfils

\* both captured futures were pending when the result was cancelled, both
\* are rejected with a Cancellation, and the result is fulfilled
C17_Witness ==
  /\ IsBuild /\ CatchesAll(prog.script) /\ FirstCancelOf(prog.root) /\ Quiescent
  /\ Len(procs[1].locals) = 2
  /\ \A cp \in Captured(Heap) : IsPending(atCancel, cp) /\ IsCancelled(Heap, cp)
  /\ IsFulfilled(Heap, prog.root)

(***************************************************************************)
(* C18: await capture(op1); await capture(op2), cancelled during op1       *)
(***************************************************************************)
\* the procedure is  await capture(op1); await capture(op2); return  with
\* the first await outside try / catch
C18_Sequential ==
  /\ IsBuild /\ Len(prog.script) = 5
  /\ prog.script[1].op = "capture" /\ prog.script[2].op = "await"
  /\ prog.script[3].op = "capture" /\ prog.script[4].op = "await"
  /\ ~prog.script[2].try

\* the result was cancelled while the procedure was awaiting op1 and op1 was
\* pending
C18_CancelledDuringOp1 ==
  /\ C18_Sequential /\ FirstCancelOf(prog.root)
  /\ atCancel.procs[1].pc = 2
  /\ IsPending(atCancel, atCancel.procs[1].locals[1])

\* op1 is cancelled, op2 is never created or captured, and the result ends
\* rejected with a Cancellation
C18_After ==
  C18_CancelledDuringOp1 =>
    /\ IsCancelled(Heap, procs[1].locals[1])
    /\ Len(procs[1].locals) = 1
    /\ Len(timers) = Len(atCancel.timers)
    /\ Len(cells) = Len(atCancel.cells)
    /\ procs[1].pc # 3 /\ procs[1].pc # 4
    /\ Quiescent => IsCancelled(Heap, prog.root)

\* C18: for  await capture(op1); await capture(op2)  without catching,
\* cancel() while op1 is pending cancels op1, op2 is never created, and the
\* result rejects with a Cancellation
C18_Op2NeverStarts == []C18_After

\* the result was cancelled during op1, everything has run, the result is
\* rejected with a Cancellation and there is one captured future
C18_Witness ==
  /\ C18_CancelledDuringOp1 /\ Quiescent
  /\ IsCancelled(Heap, prog.root)
  /\ Len(procs[1].locals) = 1

(***************************************************************************)
(* C19: capture(p) hands p back unchanged                                  *)
(***************************************************************************)
\* the future the procedure is awaiting, in heap h
Awaited(h) ==
  LET P == h.procs[1]
  IN IF P.script[P.pc].n = 0 THEN P.locals[Len(P.locals)] ELSE P.locals[P.script[P.pc].n]

\* what capture returned is the operation's own future, and it is the one
\* capture put in the registry: no future derived by then / catch / finally
C19_Same ==
  IsBuild =>
    \A cp \in Captured(Heap) : cps[cp].cancel.k \in {"getPromise", "noop"}

\* this step resumes the procedure from an await
C19_Resumes ==
  /\ IsBuild /\ jobs # <<>> /\ cancelLog' = cancelLog
  /\ Head(jobs).k = "reaction" /\ Head(jobs).r.k = "await"

\* the await yields the captured future's own state and value, and a
\* rejection outside try / catch rejects the procedure with that reason
C19_Step ==
  C19_Resumes =>
    LET j == Head(jobs)
        P == procs[1]
    IN /\ j.st = StateOf(Heap, Awaited(Heap))
       /\ j.val = ValueOf(Heap, Awaited(Heap))
       /\ (j.st = "rejected" /\ ~P.script[P.pc].try) =>
            /\ promises'[P.promise].state = "rejected"
            /\ promises'[P.promise].value = ValueOf(Heap, Awaited(Heap))

\* the procedure  await capture(reject(error))  ends rejected with error
C19_StillRejects ==
  (IsBuild /\ Len(prog.script) = 2 /\ prog.script[1].kind = "reject" /\ Quiescent) =>
    /\ StateOf(Heap, prog.root) = "rejected"
    /\ ValueOf(Heap, prog.root) = Err(prog.script[1].n)

\* the host never reports an unhandled rejection
C19_NoUnhandled == IsBuild => unhandled = {}

\* C19: capture(p) returns p itself; awaiting it yields p's value or p's
\* reason unchanged, a rejecting captured future rejects the awaiting
\* procedure, and capture's bookkeeping produces no unhandled rejection
C19_CaptureIdentity ==
  [][C19_Step]_vars /\ [](C19_Same /\ C19_StillRejects /\ C19_NoUnhandled)

\* the procedure awaited capture(reject(error)) and the result is rejected
\* with error
C19_Witness ==
  /\ IsBuild /\ Len(prog.script) = 2 /\ prog.script[1].kind = "reject"
  /\ Quiescent
  /\ StateOf(Heap, prog.root) = "rejected"
  /\ ValueOf(Heap, prog.root) = Err(6)
  /\ Registry(Heap) = {}

(***************************************************************************)
(* C20: the result settles as the procedure does                           *)
(***************************************************************************)
\* how an operation ends when nobody cancels it
OperationOutcome(I) ==
  CASE I.kind = "getPromise" -> [state |-> "fulfilled", value |-> V(I.n)]
    [] I.kind = "getPromiseFails" -> [state |-> "rejected", value |-> Err(1)]
    [] I.kind = "reject" -> [state |-> "rejected", value |-> Err(I.n)]

RECURSIVE ProcedureOutcome(_, _, _)
\* how the promise returned by the procedure settles when nobody cancels:
\* the script from instruction pc on, ops the outcomes of the operations
\* captured so far
ProcedureOutcome(script, pc, ops) ==
  IF pc > Len(script) THEN [state |-> "fulfilled", value |-> Undef]
  ELSE LET I == script[pc] IN
       CASE I.op = "capture" ->
              ProcedureOutcome(script, pc + 1, Append(ops, OperationOutcome(I)))
         [] I.op = "await" ->
              LET x == IF I.n = 0 THEN ops[Len(ops)] ELSE ops[I.n]
              IN IF x.state = "fulfilled" \/ I.try
                 THEN ProcedureOutcome(script, pc + 1, ops)
                 ELSE x
         [] I.op = "return" -> [state |-> "fulfilled", value |-> V(I.n)]
         [] I.op = "throw" -> [state |-> "rejected", value |-> Err(I.n)]

\* the result is in the state of the procedure's promise, with its value
C20_Mirrors ==
  IsBuild =>
    /\ StateOf(Heap, prog.root) = promises[procs[1].promise].state
    /\ ValueOf(Heap, prog.root) = promises[procs[1].promise].value

\* without cancel(), once everything has run, the result is settled as the
\* procedure settles
C20_Final ==
  (IsBuild /\ cancelLog = <<>> /\ Quiescent) =>
    /\ StateOf(Heap, prog.root) = ProcedureOutcome(prog.script, 1, <<>>).state
    /\ ValueOf(Heap, prog.root) = ProcedureOutcome(prog.script, 1, <<>>).value

\* C20: when cancel() is never called, the buildCancellablePromise result
\* fulfils with the procedure's value and rejects with the procedure's
\* rejection reason
C20_SettlesAsProcedure == C20_Mirrors /\ C20_Final

\* nobody cancelled, the procedure threw, and the result is rejected with
\* what it threw
C20_Witness ==
  /\ IsBuild /\ cancelLog = <<>> /\ Quiescent
  /\ prog.script[1].op = "throw"
  /\ StateOf(Heap, prog.root) = "rejected"
  /\ ValueOf(Heap, prog.root) = Err(5)

(***************************************************************************)
(* C21: p.then(onFulfilled) cancelled while p is pending                   *)
(***************************************************************************)
\* the arguments the callback of link l has been invoked with
Invoked(h, l) == h.links[l].invoked

\* p is a pending delay, pseudoCancellable or timer future when the first
\* cancel(), on p.then(onFulfilled), is made
C21_Pre ==
  /\ prog.name = "chain" /\ prog.k2 = "then"
  /\ prog.head \notin {"resolve", "reject"}
  /\ FirstCancelOf(prog.mid) /\ IsPending(atCancel, prog.f1)

\* onFulfilled is never invoked, p is rejected with a Cancellation and never
\* holds a value, p's timer never fires, and the derived future ends
\* rejected with p's Cancellation
C21_After ==
  C21_Pre =>
    /\ Invoked(Heap, prog.l2) = <<>>
    /\ IsCancelled(Heap, prog.f1)
    /\ prog.inner = 0 => TimerOf(Heap, prog.f1).state = "cleared"
    /\ ~IsFulfilled(Heap, prog.mid)
    /\ Quiescent =>
         /\ IsCancelled(Heap, prog.mid)
         /\ ValueOf(Heap, prog.mid) = ValueOf(Heap, prog.f1)

\* C21: cancel() on p.then(onFulfilled) while p is pending: onFulfilled is
\* never invoked, p never delivers its value, and the derived future rejects
\* with the Cancellation
C21_ThenCancelledPending == []C21_After

\* p was a pending timer future when p.then(onFulfilled) was cancelled;
\* everything has run
C21_Witness ==
  /\ C21_Pre /\ prog.head = "getPromise" /\ Quiescent
  /\ Invoked(Heap, prog.l2) = <<>>
  /\ IsCancelled(Heap, prog.mid)

(***************************************************************************)
(* C22: p.catch(h) cancelled while p is pending                            *)
(***************************************************************************)
\* p is a pending delay, pseudoCancellable or timer future when the first
\* cancel(), on p.catch(h), is made
C22_Pre ==
  /\ prog.name = "chain" /\ prog.k2 = "catch"
  /\ prog.head \notin {"resolve", "reject"}
  /\ FirstCancelOf(prog.mid) /\ IsPending(atCancel, prog.f1)

\* h is invoked at most once, with the Cancellation p is rejected with, and
\* has been invoked once everything has run; when h returns a plain value
\* the derived future is then fulfilled with it
C22_After ==
  C22_Pre =>
    /\ IsCancelled(Heap, prog.f1)
    /\ Invoked(Heap, prog.l2) \in {<<>>, <<ValueOf(Heap, prog.f1)>>}
    /\ Quiescent =>
         /\ Invoked(Heap, prog.l2) = <<Cancellation(0)>>
         /\ prog.cb2.k = "value" =>
              /\ IsFulfilled(Heap, prog.mid)
              /\ ValueOf(Heap, prog.mid) = V(prog.cb2.v)

\* C22: cancel() on p.catch(h) while p is pending: h is invoked once with
\* the Cancellation, and when h returns a non-cancellable value the derived
\* future fulfils with that value
C22_CatchRecovers == []C22_After

\* p.catch(() => 7) was cancelled while p was pending and is fulfilled
\* with 7
C22_Witness ==
  /\ C22_Pre /\ prog.cb2.k = "value" /\ Quiescent
  /\ Invoked(Heap, prog.l2) = <<Cancellation(0)>>
  /\ IsFulfilled(Heap, prog.mid) /\ ValueOf(Heap, prog.mid) = V(7)

(***************************************************************************)
(* C23: cancellation stays in force along a chain                          *)
(***************************************************************************)
\* a chain of then / catch links whose tail was the first future cancelled
C23_Pre ==
  /\ prog.name = "chain"
  /\ prog.k2 \in {"then", "catch"} /\ prog.k3 \in {"then", "catch"}
  /\ FirstCancelOf(prog.tail)

\* the callback of link l was invoked after the cancel()
C23_RanAfter(l) == Invoked(atCancel, l) = <<>> /\ Invoked(Heap, l) # <<>>

\* both links keep their `canceled` flag
C23_Flags == C23_Pre => links[prog.l2].canceled /\ links[prog.l3].canceled

\* a cancellable future a callback returns afterwards is cancelled in the
\* step that creates it
C23_Step ==
  C23_Pre =>
    \A l \in {prog.l2, prog.l3} :
      (Nested(Heap, l) = 0 /\ links'[l].callbackPromiseWithCancel # 0) =>
        LET n == links'[l].callbackPromiseWithCancel
        IN /\ cps'[n].calls = 1
           /\ promises'[cps'[n].promise].state = "rejected"
           /\ promises'[cps'[n].promise].value = Cancellation(0)
           /\ timers'[cells'[cps'[n].cancel.ref].timer].state = "cleared"

\* the rejection handler that follows such a callback receives a
\* Cancellation
C23_Receives ==
  (C23_Pre /\ C23_RanAfter(prog.l2) /\ prog.cb2.k = "getPromise" /\ prog.k3 = "catch") =>
    /\ Invoked(Heap, prog.l3) \in {<<>>, <<Cancellation(0)>>}
    /\ Quiescent => Invoked(Heap, prog.l3) = <<Cancellation(0)>>

\* the tail is fulfilled only if the last callback that ran afterwards
\* returned a plain value
C23_Fulfils ==
  (C23_Pre /\ Quiescent /\ IsFulfilled(Heap, prog.tail)) =>
    /\ C23_RanAfter(prog.l3) => prog.cb3.k = "value"
    /\ (Invoked(Heap, prog.l3) = <<>> /\ C23_RanAfter(prog.l2)) => prog.cb2.k = "value"

\* C23: after one cancel() on the tail of a chain of catch / then links,
\* every cancellable future a callback returns afterwards is cancelled when
\* it is created, the following rejection handler receives a Cancellation,
\* and the tail fulfils only if the last handler returns a plain value
C23_KeepsCancelling ==
  [][C23_Step]_vars /\ [](C23_Flags /\ C23_Receives /\ C23_Fulfils)

\* reject(e).catch(() => getPromise()).catch(() => 7), cancelled at once:
\* the second handler received a Cancellation and the tail is fulfilled
C23_Witness ==
  /\ C23_Pre /\ prog.head = "reject" /\ prog.k2 = "catch" /\ prog.k3 = "catch"
  /\ prog.cb2.k = "getPromise" /\ prog.cb3.k = "value"
  /\ C23_RanAfter(prog.l2) /\ Quiescent
  /\ Invoked(Heap, prog.l3) = <<Cancellation(0)>>
  /\ IsFulfilled(Heap, prog.tail) /\ ValueOf(Heap, prog.tail) = V(7)

(***************************************************************************)
(* C24: cancel() on resolve(v) / reject(r)                                 *)
(***************************************************************************)
\* the head of the chain is resolve(v) or reject(r)
C24_Pre == prog.name = "chain" /\ prog.head \in {"resolve", "reject"}

\* cancel() on it changes no promise, no link, no timer and queues nothing
C24_Step ==
  (C24_Pre /\ IsCancelOf(prog.f1)) =>
    /\ promises' = promises
    /\ links' = links
    /\ timers' = timers
    /\ jobs' = jobs
    /\ ~threw'

\* it is fulfilled with v, respectively rejected with r, in every state
C24_Settled ==
  C24_Pre =>
    IF prog.head = "resolve"
    THEN IsFulfilled(Heap, prog.f1) /\ ValueOf(Heap, prog.f1) = V(5)
    ELSE StateOf(Heap, prog.f1) = "rejected" /\ ValueOf(Heap, prog.f1) = Err(3)

\* C24: cancel() on a future made by resolve(v) or reject(r) has no effect
\* at any time: it still fulfils with v, respectively rejects with r
C24_ResolveRejectNoop == [][C24_Step]_vars /\ []C24_Settled

\* reject(r) was cancelled before any of its continuations ran and is
\* rejected with r when everything has run
C24_Witness ==
  /\ C24_Pre /\ prog.head = "reject"
  /\ FirstCancelOf(prog.f1)
  /\ Invoked(atCancel, prog.l2) = <<>> /\ IsPending(atCancel, prog.mid)
  /\ Quiescent
  /\ ValueOf(Heap, prog.f1) = Err(3)

(***************************************************************************)
(* C25: p.finally(f)                                                       *)
(***************************************************************************)
\* the middle of the chain is p.finally(f)
C25_Pre == prog.name = "chain" /\ prog.k2 = "finally"

\* p.finally(f) has p's cancel function
C25_SameCancel == C25_Pre => cps[prog.mid].cancel = cps[prog.f1].cancel

\* f runs at most once, and has run once when everything has run
C25_Once ==
  C25_Pre =>
    /\ Len(Invoked(Heap, prog.l2)) <= 1
    /\ Quiescent => Len(Invoked(Heap, prog.l2)) = 1

\* p.finally(f) ends as p did
C25_AsReceiver ==
  /\ StateOf(Heap, prog.mid) = StateOf(Heap, prog.f1)
  /\ ValueOf(Heap, prog.mid) = ValueOf(Heap, prog.f1)

\* p was pending when p.finally(f) was cancelled
C25_CancelledPending ==
  /\ prog.head \notin {"resolve", "reject"}
  /\ FirstCancelOf(prog.mid) /\ IsPending(atCancel, prog.f1)

\* C25 as stated: the outcome is p's, a Cancellation after a cancel while p
\* was pending, unless f throws
C25_Original ==
  /\ C25_SameCancel /\ C25_Once
  /\ (C25_Pre /\ Quiescent) =>
       IF prog.cb2.k = "throw"
       THEN StateOf(Heap, prog.mid) = "rejected" /\ ValueOf(Heap, prog.mid) = Err(prog.cb2.v)
       ELSE /\ C25_AsReceiver
            /\ C25_CancelledPending => IsCancelled(Heap, prog.mid)

\* f returns a future that rejects
C25_ReturnsRejecting == prog.cb2.k = "getPromise" /\ ~prog.cb2.ok

\* C25, amended: p.finally(f) has p's cancel function; f runs exactly once,
\* on fulfilment, on rejection and after a cancel while p was pending; the
\* outcome is p's, whatever f returns, except that an exception thrown by f
\* or the rejection of a future returned by f becomes the outcome
C25_Finally ==
  /\ C25_SameCancel /\ C25_Once
  /\ (C25_Pre /\ Quiescent) =>
       CASE prog.cb2.k = "throw" ->
              StateOf(Heap, prog.mid) = "rejected" /\ ValueOf(Heap, prog.mid) = Err(prog.cb2.v)
         [] C25_ReturnsRejecting ->
              StateOf(Heap, prog.mid) = "rejected" /\ ValueOf(Heap, prog.mid) = Err(1)
         [] OTHER ->
              /\ C25_AsReceiver
              /\ C25_CancelledPending => IsCancelled(Heap, prog.mid)

\* getPromise().finally(() => 7) was cancelled while pending: f ran once and
\* the future is rejected with the Cancellation
C25_Witness ==
  /\ C25_Pre /\ C25_CancelledPending /\ prog.cb2.k = "value" /\ Quiescent
  /\ Invoked(Heap, prog.l2) = <<Undef>>
  /\ IsCancelled(Heap, prog.mid)

(***************************************************************************)
(* C26: then without cancel is the standard continuation                   *)
(***************************************************************************)
IsThen == prog.name = "then"

\* how the receiver settles when nobody cancels
HeadOutcome(k) ==
  CASE k \in {"getPromise", "getPromiseReason", "resolve", "constructed"} ->
         [state |-> "fulfilled", value |-> V(5)]
    [] k \in {"delay", "pseudo"} -> [state |-> "fulfilled", value |-> Undef]
    [] k = "getPromiseFails" -> [state |-> "rejected", value |-> Err(1)]
    [] k = "reject" -> [state |-> "rejected", value |-> Err(3)]

\* Promise.prototype.then: how the continuation of a promise settled as x
\* settles, for the standard meaning of each callback
StandardThen(x, onF, onR) ==
  LET cb == IF x.state = "fulfilled" THEN onF ELSE onR
  IN CASE cb.k = "none" -> x
       [] cb.k = "value" -> [state |-> "fulfilled", value |-> V(cb.v)]
       [] cb.k = "null" -> [state |-> "fulfilled", value |-> Null]
       [] cb.k = "throw" -> [state |-> "rejected", value |-> Err(cb.v)]
       [] cb.k = "getPromise" ->
            IF cb.ok THEN [state |-> "fulfilled", value |-> V(cb.v)]
            ELSE [state |-> "rejected", value |-> Err(1)]
       [] cb.k = "promise" ->
            IF cb.ok THEN [state |-> "fulfilled", value |-> Undef]
            ELSE [state |-> "rejected", value |-> Err(4)]

\* C26: when cancel() is never called, p.then(onFulfilled, onRejected)
\* settles like the standard continuation of p's promise: plain value or
\* null, adopted promise, thrown value, or p's outcome for a missing callback
C26_StandardContinuation ==
  (IsThen /\ cancelLog = <<>> /\ Quiescent) =>
    LET x == HeadOutcome(prog.head)
        y == StandardThen(x, prog.onFulfilled, prog.onRejected)
    IN /\ StateOf(Heap, prog.p) = x.state /\ ValueOf(Heap, prog.p) = x.value
       /\ StateOf(Heap, prog.derived) = y.state
       /\ ValueOf(Heap, prog.derived) = y.value
       /\ Invoked(Heap, prog.l) =
            (IF (IF x.state = "fulfilled" THEN prog.onFulfilled ELSE prog.onRejected).k = "none"
             THEN <<>> ELSE <<x.value>>)

\* nobody cancelled, onRejected threw, and the derived future is rejected
\* with what it threw
C26_Witness ==
  /\ IsThen /\ cancelLog = <<>> /\ Quiescent
  /\ prog.head = "getPromiseFails" /\ prog.onRejected.k = "throw"
  /\ StateOf(Heap, prog.derived) = "rejected"
  /\ ValueOf(Heap, prog.derived) = Err(2)

(***************************************************************************)
(* C27: a CancellablePromise whose cancel function does nothing            *)
(***************************************************************************)
\* the receiver is new CancellablePromise(promise, () => {})
C27_Pre == IsThen /\ prog.head = "constructed"

\* the timer behind its promise
C27_Timer ==
  CHOOSE t \in 1..Len(timers) :
    timers[t].k = "helperDelay" /\ timers[t].cell = cps[prog.p].promise

\* no cancel(), on it or on its continuation, changes its promise or the
\* timer behind it
C27_Step ==
  (C27_Pre /\ cancelLog' # cancelLog) =>
    /\ promises'[cps[prog.p].promise] = promises[cps[prog.p].promise]
    /\ timers'[C27_Timer] = timers[C27_Timer]

\* it settles as it does without cancel, and onFulfilled runs with its value
C27_Final ==
  (C27_Pre /\ Quiescent) =>
    /\ IsFulfilled(Heap, prog.p) /\ ValueOf(Heap, prog.p) = V(5)
    /\ prog.onFulfilled.k # "none" => Invoked(Heap, prog.l) = <<V(5)>>

\* C27: a CancellablePromise constructed with a cancel function that does
\* nothing is not cancelled by cancel(): its promise settles as without
\* cancel and callbacks attached with then still run with its value
C27_NoopCancel == [][C27_Step]_vars /\ []C27_Final

\* it was cancelled while pending, and is fulfilled; onFulfilled ran with
\* its value
C27_Witness ==
  /\ C27_Pre /\ FirstCancelOf(prog.p) /\ IsPending(atCancel, prog.p)
  /\ Quiescent
  /\ IsFulfilled(Heap, prog.p)
  /\ Invoked(Heap, prog.l) = <<V(5)>>

(***************************************************************************)
(* C28: race([])                                                           *)
(***************************************************************************)
C28_Pre == IsAggregate("race") /\ prog.values = <<>>

\* it is pending, no handler of it is ever queued, and nothing has thrown
C28_Never ==
  C28_Pre => IsPending(Heap, prog.root) /\ jobs = <<>> /\ ~threw

\* cancel() on it changes no promise and does not throw
C28_Step ==
  (C28_Pre /\ IsCancelOf(prog.root)) => promises' = promises /\ ~threw'

\* C28: race([]) never settles, before or after any number of cancel()
\* calls, its handlers never run, and cancel() on it does not throw
C28_RaceEmpty == [][C28_Step]_vars /\ []C28_Never

\* race([]) has been cancelled and is pending
C28_Witness ==
  /\ C28_Pre /\ FirstCancelOf(prog.root)
  /\ cps[prog.root].calls >= 1
  /\ IsPending(Heap, prog.root) /\ Quiescent

(***************************************************************************)
(* C29: p.then(cb) cancelled while the future cb returned is pending       *)
(***************************************************************************)
\* cb has returned the cancellable future n, and n is pending, in heap h
C29_NestedPending(h) ==
  /\ IsThen
  /\ Nested(h, prog.l) # 0
  /\ IsPending(h, Nested(h, prog.l))

\* cancel() on p.then(cb) calls p.cancel(), which changes nothing of p, and
\* n.cancel(), which rejects n with a Cancellation
C29_Step ==
  (C29_NestedPending(Heap) /\ IsCancelOf(prog.derived)) =>
    LET n == Nested(Heap, prog.l)
    IN /\ ~IsPending(Heap, prog.p)
       /\ cps'[prog.p].calls = cps[prog.p].calls + 1
       /\ promises'[cps[prog.p].promise] = promises[cps[prog.p].promise]
       /\ cps'[n].calls = cps[n].calls + 1
       /\ promises'[cps[n].promise].state = "rejected"
       /\ promises'[cps[n].promise].value = Cancellation(0)

\* the derived future ends rejected with n's Cancellation
C29_Final ==
  (IsThen /\ FirstCancelOf(prog.derived) /\ C29_NestedPending(atCancel) /\ Quiescent) =>
    /\ IsCancelled(Heap, prog.derived)
    /\ ValueOf(Heap, prog.derived) = ValueOf(Heap, Nested(Heap, prog.l))

\* C29: cancel() on p.then(cb) after cb returned a cancellable future n and
\* while n is pending invokes p's cancel, a no-op, and n's cancel, and the
\* derived future rejects with n's Cancellation, for onFulfilled and for
\* onRejected alike
C29_NestedCancelled == [][C29_Step]_vars /\ []C29_Final

\* onRejected had returned a future that was pending when the derived future
\* was cancelled; the derived future is rejected with the Cancellation
C29_Witness ==
  /\ IsThen /\ prog.head = "getPromiseFails" /\ prog.onRejected.k = "getPromise"
  /\ FirstCancelOf(prog.derived) /\ C29_NestedPending(atCancel) /\ Quiescent
  /\ cps[prog.p].calls = 1 /\ cps[Nested(Heap, prog.l)].calls = 1
  /\ IsCancelled(Heap, prog.derived)

(***************************************************************************)
(* C30: cancel() of an aggregate over mixed inputs                         *)
(***************************************************************************)
\* the inputs that are objects with a then and a cancel function
C30_WithCancel == {i \in DOMAIN prog.values : prog.values[i].t = "CancellablePromise"}

\* the inputs that are ordinary promises: a then, no cancel
C30_Ordinary == {i \in DOMAIN prog.values : prog.values[i].t = "Promise"}

\* cancel() on the aggregate does not throw, calls cancel once on each input
\* that has one, and leaves the ordinary promises and their timers alone
C30_Step ==
  (prog.name = "aggregate" /\ IsCancelOf(prog.root)) =>
    /\ ~threw'
    /\ \A i \in C30_WithCancel :
         cps'[prog.values[i].v].calls = cps[prog.values[i].v].calls + 1
    /\ \A cp \in DOMAIN cps :
         cp \notin {prog.values[i].v : i \in C30_WithCancel} \cup {prog.root} =>
           cps'[cp].calls = cps[cp].calls
    /\ \A i \in C30_Ordinary :
         /\ promises'[prog.values[i].v] = promises[prog.values[i].v]
         /\ \A t \in DOMAIN timers :
              (timers[t].k = "helperDelay" /\ timers[t].cell = prog.values[i].v) =>
                timers'[t] = timers[t]

\* the ordinary promises settle as they do without cancel
C30_Final ==
  (prog.name = "aggregate" /\ Quiescent) =>
    /\ ~threw
    /\ \A i \in C30_Ordinary :
         /\ promises[prog.values[i].v].state = "fulfilled"
         /\ promises[prog.values[i].v].value = Undef

\* C30: cancel() on all, race or allSettled over inputs that mix cancellable
\* futures with plain values, null and promises lacking cancel never throws
\* and invokes cancel on exactly the objects with both a then and a cancel
\* function; the other inputs are skipped and settle as usual
C30_MixedInputs == [][C30_Step]_vars /\ []C30_Final

\* a cancelled aggregate over a pending cancellable future and a promise
\* without cancel, or over one and null
C30_Witness ==
  /\ prog.name = "aggregate" /\ FirstCancelOf(prog.root) /\ Quiescent
  /\ \E i \in C30_WithCancel : IsPending(atCancel, prog.values[i].v)
  /\ \E i \in C30_Ordinary : atCancel.promises[prog.values[i].v].state = "pending"
  /\ ~threw

(***************************************************************************)
(* C31: how long a settled future stays in the capture registry            *)
(***************************************************************************)
\* the job that runs the registry's () => captured.delete(cp) is queued
C31_DeleteJob(cp) ==
  \E j \in 1..Len(jobs) :
    /\ jobs[j].k = "reaction" /\ jobs[j].r.k = "finally"
    /\ links[jobs[j].r.a].this = cp
    /\ links[jobs[j].r.a].onFulfilled.k = "delete"

\* a settled future in the registry has its delete job in the microtask
\* queue: the job was queued by the settlement
C31_DeleteQueued ==
  IsBuild => \A cp \in Registry(Heap) : ~IsPending(Heap, cp) => C31_DeleteJob(cp)

\* when a timer callback starts, that is, at the start of a turn of the
\* event loop, every future in the registry is pending; the callback and the
\* jobs it queues are one turn
C31_TurnStart ==
  (IsBuild /\ FireTimer) => \A cp \in Registry(Heap) : IsPending(Heap, cp)

\* C31: a captured future that settles is deleted from the registry before
\* a second scheduling tick after the settlement has elapsed: the deletion
\* is queued at the settlement and runs before the next turn of the event
\* loop starts
C31_OneTick == []C31_DeleteQueued /\ [][C31_TurnStart]_vars

\* a captured future has settled in a timer callback and is in the registry,
\* its delete job queued behind another job
C31_Witness ==
  /\ IsBuild /\ Len(jobs) >= 2
  /\ \E cp \in Registry(Heap) :
       /\ ~IsPending(Heap, cp)
       /\ \E t \in 1..Len(timers) : timers[t].state = "fired"
       /\ ~(jobs[1].k = "reaction" /\ jobs[1].r.k = "finally"
            /\ links[jobs[1].r.a].this = cp)

(***************************************************************************)
(* C32: cancel() fans out synchronously, rejections are seen later         *)
(***************************************************************************)
\* the futures a link's cancel reaches: its receiver and the future its
\* callback returned, if any
C32_OfLink(h, l) ==
  {h.links[l].this} \cup (IF Nested(h, l) = 0 THEN {} ELSE {Nested(h, l)})

\* the constituents of the composite cp in heap h
C32_Constituents(h, cp) ==
  CASE prog.name = "chain" ->
         IF cp = prog.mid THEN C32_OfLink(h, prog.l2)
         ELSE IF cp = prog.tail THEN C32_OfLink(h, prog.l3) ELSE {}
    [] prog.name = "then" -> IF cp = prog.derived THEN C32_OfLink(h, prog.l) ELSE {}
    [] prog.name = "aggregate" -> {prog.values[i].v : i \in CancellableInputs}
    [] prog.name = "build" -> Captured(h)

\* cp is a composite; a finally-derived future has its receiver's cancel
\* function and is none
C32_Composite(cp) ==
  CASE prog.name = "chain" ->
         \/ cp = prog.mid /\ prog.k2 # "finally"
         \/ cp = prog.tail /\ prog.k3 # "finally"
    [] prog.name = "then" -> cp = prog.derived
    [] prog.name \in {"aggregate", "build"} -> TRUE

\* when cancel() on a composite returns, cancel has been invoked on every
\* constituent that was pending
C32_FanOut ==
  \A cp \in prog.targets :
    (C32_Composite(cp) /\ IsCancelOf(cp)) =>
      \A c \in C32_Constituents(Heap, cp) :
        IsPending(Heap, c) => cps'[c].calls >= cps[c].calls + 1

\* and nothing has observed a rejection yet: the composite's own promise is
\* as it was, no callback has been invoked, no procedure has resumed, no job
\* has run; the reactions to the rejections are queued
C32_NotYetObserved ==
  \A cp \in prog.targets :
    (C32_Composite(cp) /\ IsCancelOf(cp)) =>
      /\ promises'[cps[cp].promise] = promises[cps[cp].promise]
      /\ \A l \in 1..Len(links) : links'[l].invoked = links[l].invoked
      /\ procs' = procs
      /\ Len(jobs') >= Len(jobs) /\ SubSeq(jobs', 1, Len(jobs)) = jobs

\* C32: when cancel() on a composite returns, the cancel of every
\* constituent that existed and was pending at the call has been invoked,
\* while the rejections are observed on later scheduling ticks only
C32_SynchronousFanOut == [][C32_FanOut /\ C32_NotYetObserved]_vars

\* a composite with two pending constituents was cancelled while pending;
\* both have been called, the composite is pending and reactions are queued
C32_Witness ==
  /\ IsBuild /\ FirstCancelOf(prog.root)
  /\ Cardinality({c \in Captured(atCancel) : IsPending(atCancel, c)}) = 2
  /\ \A c \in Captured(atCancel) : cps[c].calls = 1
  /\ IsPending(Heap, prog.root) /\ jobs # <<>>

(***************************************************************************)
(* C33: cancel() never throws                                              *)
(***************************************************************************)
\* a call of cancel() throws nothing, and every promise it settles it
\* rejects with a Cancellation
C33_Step ==
  (\E cp \in Held : IsCancelOf(cp)) =>
    /\ ~threw'
    /\ \A p \in 1..Len(promises) :
         promises'[p].state # promises[p].state =>
           /\ promises'[p].state = "rejected"
           /\ promises'[p].value.t = "Cancellation"

\* C33: cancel() on a future built by the core from core-built constituents
\* never throws, in any state; cancellation shows as a rejection with a
\* Cancellation
C33_NeverThrows == [][C33_Step]_vars /\ [](~threw)

\* the tail of a chain over delay() was cancelled after the delay's timer had
\* fired; nothing was thrown
C33_Witness ==
  /\ prog.name = "chain" /\ prog.head = "delay"
  /\ FirstCancelOf(prog.tail)
  /\ ~IsPending(atCancel, prog.f1)
  /\ ~threw /\ Quiescent

(***************************************************************************)
(* C34: cancel() called again                                              *)
(***************************************************************************)
\* this step is cancel() on a future that cancel() was called on before
C34_Again(cp) ==
  IsCancelOf(cp) /\ \E i \in 1..Len(cancelLog) : cancelLog[i] = cp

\* the step settles no promise, queues no job, touches no timer and throws
\* nothing
C34_NoEffect ==
  /\ Len(promises') = Len(promises)
  /\ \A p \in 1..Len(promises) :
       /\ promises'[p].state = promises[p].state
       /\ promises'[p].value = promises[p].value
  /\ jobs' = jobs
  /\ timers' = timers
  /\ ~threw'

C34_OnlyNewlyCaptured ==
  /\ Len(promises') = Len(promises)
  /\ \A p \in 1..Len(promises) :
       promises'[p] # promises[p] =>
         /\ promises'[p].state = "rejected" /\ promises'[p].value = Cancellation(0)
         /\ \E c \in Registry(Heap) : cps[c].promise = p /\ cps[c].calls = 0
  /\ \A c \in 1..Len(cps) :
       cps[c].calls >= 1 => promises'[cps[c].promise] = promises[cps[c].promise]
  /\ ~threw'

C35_Step ==
  (IsThen /\ Nested(Heap, prog.l) # 0 /\ IsCancelOf(Nested(Heap, prog.l))) =>
    /\ cps'[prog.p].calls = cps[prog.p].calls
    /\ cps'[prog.derived].calls = cps[prog.derived].calls
    /\ links'[prog.l].canceled = links[prog.l].canceled

\* only n has been cancelled, while it was pending
C35_OnlyNested ==
  /\ IsThen /\ cancelLog # <<>>
  /\ Nested(Heap, prog.l) # 0
  /\ \A i \in 1..Len(cancelLog) : cancelLog[i] = Nested(Heap, prog.l)
  /\ IsPending(atCancel, Nested(Heap, prog.l))

\* the derived future is rejected with the value n is rejected with; the
\* flag is false and p's cancel was never called
C35_Final ==
  (C35_OnlyNested /\ Quiescent) =>
    /\ StateOf(Heap, Nested(Heap, prog.l)) = "rejected"
    /\ StateOf(Heap, prog.derived) = "rejected"
    /\ ValueOf(Heap, prog.derived) = ValueOf(Heap, Nested(Heap, prog.l))
    /\ ~links[prog.l].canceled
    /\ cps[prog.p].calls = 0

\* C35: when the future n a then callback returned is cancelled directly,
\* the derived future rejects with exactly the value n rejected with, p's
\* cancel is not invoked and the link's flag stays false
C35_NestedCancelledDirectly == [][C35_Step]_vars /\ []C35_Final

\* n was cancelled directly while pending and the derived future is rejected
\* with n's Cancellation
C35_Witness ==
  /\ C35_OnlyNested /\ Quiescent
  /\ prog.onFulfilled.k = "getPromise" /\ prog.head = "getPromise"
  /\ IsCancelled(Heap, prog.derived)

(***************************************************************************)
(* C36: an aggregate that settles cancels nothing                          *)
(***************************************************************************)
\* a step that is no call of cancel() by the application invokes no cancel
C36_Step ==
  (prog.name = "aggregate" /\ cancelLog' = cancelLog) =>
    \A cp \in 1..Len(cps) : cps'[cp].calls = cps[cp].calls

\* an input's cancel has been invoked only if the aggregate's cancel has
C36_OnlyFromCancel ==
  prog.name = "aggregate" =>
    \A i \in CancellableInputs :
      cps[prog.values[i].v].calls >= 1 => cps[prog.root].calls >= 1

\* C36: the settlement of all, race or allSettled invokes no input's cancel;
\* the inputs' cancel operations are invoked from the aggregate's cancel()
\* only
C36_SettlementCancelsNothing == [][C36_Step]_vars /\ []C36_OnlyFromCancel

\* a race has settled on its first input while the other was pending; the
\* other's cancel was never invoked and it has settled by itself
C36_Witness ==
  /\ IsAggregate("race") /\ cancelLog = <<>> /\ Quiescent
  /\ Len(prog.values) = 2
  /\ prog.kinds = <<"resolve", "getPromise">>
  /\ IsFulfilled(Heap, prog.root)
  /\ cps[prog.values[2].v].calls = 0
  /\ IsFulfilled(Heap, prog.values[2].v)

(***************************************************************************)
(* C37: p.then(cb) cancelled after p fulfilled and before cb ran           *)
(***************************************************************************)
\* the first cancel() was on p.then(cb), p had fulfilled, cb had not run,
\* and cb returns something that is no cancellable future
C37_Pre ==
  /\ IsThen /\ FirstCancelOf(prog.derived)
  /\ IsFulfilled(atCancel, prog.p)
  /\ Invoked(atCancel, prog.l) = <<>>
  /\ prog.onFulfilled.k \in {"value", "null", "promise"}

\* the flag is set, cb runs all the same, and the derived future settles as
\* the standard continuation does: fulfilled with cb's plain value, or as the
\* ordinary promise cb returned
C37_After ==
  C37_Pre =>
    /\ links[prog.l].canceled
    /\ Nested(Heap, prog.l) = 0
    /\ Quiescent =>
         LET y == StandardThen(HeadOutcome(prog.head), prog.onFulfilled, prog.onRejected)
         IN /\ Invoked(Heap, prog.l) = <<ValueOf(Heap, prog.p)>>
            /\ StateOf(Heap, prog.derived) = y.state
            /\ ValueOf(Heap, prog.derived) = y.value

\* C37: cancel() on p.then(cb) when p has fulfilled and cb has not run yet:
\* if cb returns a value that is no cancellable future, the derived future
\* fulfils with it although it was cancelled while pending
C37_PlainResultKept == []C37_After

\* resolve(5).then(() => 7) was cancelled before the callback ran and is
\* fulfilled with 7
C37_Witness ==
  /\ C37_Pre /\ Quiescent
  /\ prog.head = "resolve" /\ prog.onFulfilled.k = "value"
  /\ IsPending(atCancel, prog.derived)
  /\ IsFulfilled(Heap, prog.derived) /\ ValueOf(Heap, prog.derived) = V(7)

(***************************************************************************)
(* C38: futures a procedure captures after cancel()                        *)
(***************************************************************************)
\* the instruction that made the i-th captured future
C38_CaptureInstr(i) == SelectSeq(prog.script, LAMBDA I : I.op = "capture")[i]

\* a future the procedure captures in a step that is no cancel() has not had
\* its cancel invoked, whether cancel() was called before or not
C38_CapturedFresh ==
  (IsBuild /\ cancelLog' = cancelLog) =>
    \A i \in (Len(procs[1].locals) + 1)..Len(procs'[1].locals) :
      cps'[procs'[1].locals[i]].calls = 0

\* a captured future whose cancel was never invoked ends as its operation
\* ends
C38_RunsToCompletion ==
  (IsBuild /\ Quiescent) =>
    \A i \in 1..Len(procs[1].locals) :
      cps[procs[1].locals[i]].calls = 0 =>
        /\ StateOf(Heap, procs[1].locals[i]) = OperationOutcome(C38_CaptureInstr(i)).state
        /\ ValueOf(Heap, procs[1].locals[i]) = OperationOutcome(C38_CaptureInstr(i)).value

\* the contrast: a then link whose cancel was requested cancels the future
\* its callback returns later, in the step that returns it
C38_LinkCancelsLate ==
  (IsThen /\ cancelLog' = cancelLog /\ links[prog.l].canceled
     /\ Nested(Heap, prog.l) = 0 /\ links'[prog.l].callbackPromiseWithCancel # 0) =>
    LET n == links'[prog.l].callbackPromiseWithCancel
    IN /\ cps'[n].calls = 1
       /\ promises'[cps'[n].promise].state = "rejected"
       /\ promises'[cps'[n].promise].value = Cancellation(0)

\* C38: buildCancellablePromise keeps no cancel-requested flag: a future the
\* procedure captures after cancel() has returned is not cancelled by that
\* call and runs to completion, unlike the future a then callback returns
\* after cancel() was requested on the link
C38_NoFlag ==
  [][C38_CapturedFresh /\ C38_LinkCancelsLate]_vars /\ []C38_RunsToCompletion

\* cancel() was called while the first future was pending, the procedure
\* caught the Cancellation and captured a second future, which has fulfilled;
\* the result is fulfilled
C38_Witness ==
  /\ IsBuild /\ cancelLog # <<>> /\ Quiescent
  /\ Len(procs[1].locals) = 2
  /\ procs[1].locals[2] \notin Captured(atCancel)
  /\ IsCancelled(Heap, procs[1].locals[1])
  /\ cps[procs[1].locals[2]].calls = 0
  /\ IsFulfilled(Heap, procs[1].locals[2])
  /\ IsFulfilled(Heap, prog.root)

(***************************************************************************)
(* C39: cancel() of an aggregate with no pending cancellable input         *)
(***************************************************************************)
\* no input is a cancellable future that is pending in heap h
C39_NothingToCancel(h) ==
  \A i \in CancellableInputs : ~IsPending(h, prog.values[i].v)

\* cancel() on such an aggregate settles nothing, queues nothing, touches no
\* timer and throws nothing: the run goes on as it would without the call
C39_Step ==
  (prog.name = "aggregate" /\ IsCancelOf(prog.root) /\ C39_NothingToCancel(Heap)) =>
    /\ promises' = promises
    /\ jobs' = jobs
    /\ timers' = timers
    /\ aggs' = aggs
    /\ ~threw'

\* every input is a plain value
C39_PlainValues ==
  \A i \in 1..Len(prog.values) : prog.kinds[i] \in {"value", "null"}

\* the aggregate is never rejected with a Cancellation, and all of plain
\* values fulfils with those values
C39_Outcome ==
  (prog.name = "aggregate" /\ FirstCancelOf(prog.root) /\ C39_NothingToCancel(atCancel)) =>
    /\ ~IsCancelled(Heap, prog.root)
    /\ (IsAggregate("all") /\ C39_PlainValues /\ Quiescent) =>
         /\ IsFulfilled(Heap, prog.root)
         /\ ValueOf(Heap, prog.root) = Arr(prog.values)

\* C39: cancel() on all, race or allSettled none of whose inputs is a pending
\* cancellable future does not change the aggregate's outcome; all of plain
\* values still fulfils with them and is never rejected with a Cancellation
C39_NothingPending == [][C39_Step]_vars /\ []C39_Outcome

\* all of two plain values was cancelled while pending and has fulfilled with
\* the values
C39_Witness ==
  /\ IsAggregate("all") /\ FirstCancelOf(prog.root) /\ Quiescent
  /\ Len(prog.values) = 2 /\ C39_PlainValues
  /\ IsPending(atCancel, prog.root)
  /\ IsFulfilled(Heap, prog.root) /\ ValueOf(Heap, prog.root) = Arr(prog.values)

(***************************************************************************)
(* C40: the reason handed to cancel(reason)                                *)
(***************************************************************************)
\* every invocation of a cancel by the core, from a link, an aggregate, a
\* procedure's result or a wrapper that cancels a late result, is without
\* an argument
C40_NoArgument ==
  \A c \in 1..Len(cps) :
    \A i \in 1..Len(cps[c].args) : cps[c].args[i] = NoReason

\* a Cancellation with a message of its own exists only where the cancel
\* function the owner supplied makes it: the timer future built with a
\* cancellationReason; delay, pseudoCancellable and every other future
\* reject with the default message, whatever reason cancel() was given
C40_MessageFromOwner ==
  \A p \in 1..Len(promises) :
    (promises[p].value.t = "Cancellation" /\ promises[p].value.v # NoReason) =>
      /\ IsThen /\ prog.head = "getPromiseReason"
      /\ promises[p].value = Cancellation(2)

\* cancel(reason) on a pending delay or pseudoCancellable future (the future
\* itself, not one derived from it by finally) rejects it with the default
\* Cancellation
C40_Step ==
  \A cp \in Held :
    (/\ IsCancelOf(cp) /\ cps[cp].cancel.k \in {"delay", "pseudo"}
     /\ cells[cps[cp].cancel.ref].promise = cps[cp].promise
     /\ IsPending(Heap, cp)) =>
      /\ promises'[cps[cp].promise].state = "rejected"
      /\ promises'[cps[cp].promise].value = Cancellation(NoReason)

\* the Cancellation the owner's cancel function made reaches the derived
\* future unchanged when no handler takes it
C40_Delivered ==
  (IsThen /\ prog.head = "getPromiseReason" /\ prog.onRejected = NoCb
     /\ cancelLog # <<>> /\ cancelLog[1] \in {prog.p, prog.derived}
     /\ IsPending(atCancel, prog.p) /\ Quiescent) =>
    /\ StateOf(Heap, prog.p) = "rejected" /\ ValueOf(Heap, prog.p) = Cancellation(2)
    /\ StateOf(Heap, prog.derived) = "rejected"
    /\ ValueOf(Heap, prog.derived) = Cancellation(2)

\* C40: the reason passed to cancel(reason) is not propagated by the core:
\* composites invoke their constituents' cancel without an argument, delay
\* and pseudoCancellable reject with the default message, and a Cancellation
\* has a message of its own only when the owner's cancel function puts it
\* there, which the derived future then delivers unchanged
C40_ReasonNotPropagated ==
  [][C40_Step]_vars /\ [](C40_NoArgument /\ C40_MessageFromOwner /\ C40_Delivered)

\* p.then(cb) over a future with a cancellationReason: the derived future
\* has been cancelled, p's cancel was invoked once by the link, and both are
\* rejected with the owner's Cancellation
C40_Witness ==
  /\ IsThen /\ prog.head = "getPromiseReason" /\ prog.onRejected = NoCb
  /\ FirstCancelOf(prog.derived) /\ IsPending(atCancel, prog.p) /\ Quiescent
  /\ cps[prog.p].args = <<NoReason>>
  /\ ValueOf(Heap, prog.derived) = Cancellation(2)

====
